---- MODULE Spec2Model ----
(***************************************************************************)
(* Release pipeline of the dcat-dataset-publication-service.               *)
(*                                                                         *)
(* Part 1, the release task queue (src/lib/release-task.js, src/app.js):   *)
(* the task records of the store, the start-up init, the POST /delta       *)
(* handler and execute() with its self-chaining drain.  One action is one  *)
(* call to the store (query or update): between two awaited store calls    *)
(* the JavaScript of one handler runs without interruption, while the      *)
(* store serves the calls of all handlers in any order.                    *)
(*                                                                         *)
(* Part 2, the graph transfer engine (src/lib/graph-helpers.js):           *)
(* moveGraph, one action per store call, on one source and one target      *)
(* graph.                                                                  *)
(***************************************************************************)
EXTENDS Integers, Sequences, FiniteSets, TLC

\* ---------------------------------------------------------------- bounds
NumTasks == 3
NumDeltas == 1
MaxFaults == 2

Tasks == 1..NumTasks
\* worker 0 is the chain of execute() calls begun by init(); worker d > 0 is
\* the chain begun by the d-th POST /delta request in flight
InitWorker == 0
Deltas == 1..NumDeltas
Workers == {InitWorker} \cup Deltas
Null == 0

\* ------------------------------------------------- RELEASE_TASK_STATUSES
NOT_STARTED == "not-started"
READY_FOR_RELEASE == "ready-for-release"
RELEASING == "releasing"
SUCCESS == "success"
FAILED == "failed"
Statuses == {NOT_STARTED, READY_FOR_RELEASE, RELEASING, SUCCESS, FAILED}

VARIABLES
  status,      \* store: task -> set of objects of its adms:status triples
  hpc,         \* worker -> position of its handler (init or POST /delta)
  response,    \* worker -> HTTP response of its /delta request
  epc,         \* worker -> position inside execute() of its current task
  etask,       \* worker -> task its execute() runs on (this.uri), or Null
  outcome,     \* worker -> how its last execute() promise settled
  thrownAt,    \* worker -> the call whose exception its catch block handles
  notified,    \* tasks for which createEmailOnFailure delivered a mail
  raised,      \* tasks whose execute() caught an exception, not reset since
  faults       \* number of store or mail calls that returned an error

qvars == <<status, hpc, response, epc, etask, outcome, thrownAt, notified,
          raised, faults>>

VARIABLES
  source,        \* store: the triples of the source graph of moveGraph
  target,        \* store: the triples of the target graph of moveGraph
  mpc,           \* position inside moveGraph
  triples,       \* getTriples: the rows accumulated so far
  count,         \* the count read last (getTriples, compare..., removeGraph)
  offset,        \* getTriples / removeGraph: loop offset
  i,             \* insertInGraph: loop index
  currentBatch,  \* compareGraphAndCopyMissingTriples: batches issued
  totalBatches,  \* compareGraphAndCopyMissingTriples: batches planned
  source0,       \* the source graph when moveGraph was called
  target0,       \* the target graph when moveGraph was called
  updates        \* number of updates of the two graphs the store has executed

mvars == <<source, target, mpc, triples, count, offset, i, currentBatch,
           totalBatches, source0, target0, updates>>

VARIABLES
  calls          \* calls of compareGraphAndCopyMissingTriples made in a row

VARIABLES
  pub,              \* store: the triples of PUBLIC_GRAPH
  stg,              \* store: the triples of the staging graph of the task
  snapshot,         \* /share: dataset -> the triples written to its TTL file
  generated,        \* store: the prov:generated links, <<task, dataset>>
  rtask,            \* the release task at the head of the queue
  rstatus,          \* the status of that task
  rpc,              \* position inside execute() and release() of that task
  dataset,          \* this.uri of the Dataset of the running release
  previousDataset,  \* deprecatePrevious: the dataset its query found
  bindings,         \* generateAttachmentDistributions: bindings left to do
  stg0,             \* the staging graph when moveGraph was called
  failures          \* number of store calls of releases that rejected

dvars == <<calls, pub, stg, snapshot, generated, rtask, rstatus, rpc, dataset,
           previousDataset, bindings, stg0, failures>>

VARIABLES
  term,         \* toTripleStatement: the rdfTerm given to escape
  statement,    \* toTripleStatement: the string escape returned for it
  stored,       \* store: the term a SELECT gives back for that string
  tpc,          \* position of the term between encoding and read back
  pageSize,     \* SELECT_BATCH_SIZE of the run
  batchSize,    \* UPDATE_BATCH_SIZE of the run
  fetchGraph,   \* store: the triples of the graph getTriples reads
  fetched,      \* getTriples: triples
  fetchCount,   \* getTriples: count
  fetchOffset,  \* getTriples: offset
  reads,        \* the paged reads issued so far, <<offset, rows returned>>
  insertIndex,  \* insertInGraph: i
  inserts,      \* the batches of the INSERT DATA updates issued so far
  bpc,          \* position inside getTriples and insertInGraph
  dispatched    \* moveGraph: number of updates it has sent to the store

tvars == <<term, statement, stored, tpc, pageSize, batchSize, fetchGraph,
           fetched,
           fetchCount, fetchOffset, reads, insertIndex, inserts, bpc,
           dispatched>>

vars == <<qvars, mvars, dvars, tvars>>

\* dct:created of a task: the tasks are numbered in creation order
Created(t) == t

\* ------------------------------------------------------------ the queries
\* SELECT ?s WHERE { ?s adms:status RELEASING } ORDER BY ?created LIMIT 1:
\* non-null exactly when some task has a status triple RELEASING
getRunningReleaseTask(st) ==
  \E t \in Tasks : RELEASING \in st[t]

\* faulty variant of getNextReleaseTask: ORDER BY DESC(?created)
getNextReleaseTaskLatest(st) ==
  LET ready == {t \in Tasks : READY_FOR_RELEASE \in st[t]}
  IN IF (\E t \in Tasks : FAILED \in st[t]) \/ ready = {} THEN Null
     ELSE CHOOSE t \in ready : \A u \in ready : Created(t) >= Created(u)

\* the READY_FOR_RELEASE task with the earliest created, provided no task
\* has a status triple FAILED (FILTER NOT EXISTS); Null for no binding
getNextReleaseTask(st) ==
  LET ready == {t \in Tasks : READY_FOR_RELEASE \in st[t]}
  IN IF (\E t \in Tasks : FAILED \in st[t]) \/ ready = {} THEN Null
     ELSE CHOOSE t \in ready : \A u \in ready : Created(t) <= Created(u)

getFailedTask(st) ==
  LET failed == {t \in Tasks : FAILED \in st[t]}
  IN IF failed = {} THEN Null
     ELSE CHOOSE t \in failed : \A u \in failed : Created(t) <= Created(u)

\* ----------------------------------------------------------------- Init
QInit ==
  /\ status \in [Tasks -> {{NOT_STARTED}, {READY_FOR_RELEASE}}]
  /\ hpc = [w \in Workers |-> IF w = InitWorker THEN "getNext" ELSE "idle"]
  /\ response = [w \in Workers |-> "none"]
  /\ epc = [w \in Workers |-> "idle"]
  /\ etask = [w \in Workers |-> Null]
  /\ outcome = [w \in Workers |-> "none"]
  /\ thrownAt = [w \in Workers |-> "none"]
  /\ notified = {}
  /\ raised = {}
  /\ faults = 0

\* a store (or mail) call may return an error instead of a result
CanFail == faults < MaxFaults
Fault == faults' = faults + 1

\* faulty variant: the caller awaits task.execute(), so it goes on only when
\* the promise of execute() has settled
StartExecuteAwaited(w, t) ==
  /\ epc' = [epc EXCEPT ![w] = "releasing_delete"]
  /\ etask' = [etask EXCEPT ![w] = t]
  /\ outcome' = [outcome EXCEPT ![w] = "fulfilled"]
  /\ thrownAt' = [thrownAt EXCEPT ![w] = "none"]

\* task.execute() called without await: the new execute() runs up to its
\* first await, the DELETE of persistStatus(RELEASING), which is then pending
StartExecute(w, t) ==
  /\ epc' = [epc EXCEPT ![w] = "releasing_delete"]
  /\ etask' = [etask EXCEPT ![w] = t]
  /\ outcome' = [outcome EXCEPT ![w] = "pending"]
  /\ thrownAt' = [thrownAt EXCEPT ![w] = "none"]

\* ------------------------------------------------------ app.js: init()
InitGetNext ==
  /\ hpc[InitWorker] = "getNext"
  /\ UNCHANGED <<mvars, dvars, tvars>>
  /\ \/ /\ getNextReleaseTask(status) # Null
        /\ StartExecute(InitWorker, getNextReleaseTask(status))
        /\ hpc' = [hpc EXCEPT ![InitWorker] = "done"]
        /\ UNCHANGED faults
     \/ /\ getNextReleaseTask(status) = Null
        /\ hpc' = [hpc EXCEPT ![InitWorker] = "getFailed"]
        /\ UNCHANGED <<epc, etask, outcome, thrownAt, faults>>
     \/ /\ CanFail /\ Fault          \* the query rejects: init() rejects
        /\ hpc' = [hpc EXCEPT ![InitWorker] = "done"]
        /\ UNCHANGED <<epc, etask, outcome, thrownAt>>
  /\ UNCHANGED <<status, response, notified, raised>>

\* getFailedTask() and logFailureResolutionManual(): only prints
InitGetFailed ==
  /\ hpc[InitWorker] = "getFailed"
  /\ UNCHANGED <<mvars, dvars, tvars>>
  /\ hpc' = [hpc EXCEPT ![InitWorker] = "done"]
  /\ \/ UNCHANGED faults
     \/ CanFail /\ Fault
  /\ UNCHANGED <<status, response, epc, etask, outcome, thrownAt, notified, raised>>

\* ------------------------------------------------- app.js: POST /delta
\* a request arrives; its worker slot is free (no handler, no execute())
DeltaReceive(d) ==
  /\ hpc[d] = "idle" /\ epc[d] = "idle"
  /\ UNCHANGED <<mvars, dvars, tvars>>
  /\ hpc' = [hpc EXCEPT ![d] = "getRunning"]
  /\ response' = [response EXCEPT ![d] = "none"]
  /\ outcome' = [outcome EXCEPT ![d] = "none"]
  /\ UNCHANGED thrownAt
  /\ UNCHANGED <<status, epc, etask, notified, raised, faults>>

\* isRunning = await getRunningReleaseTask(); then the body of the request
\* is filtered for inserted adms:status READY_FOR_RELEASE triples
DeltaGetRunning(d) ==
  /\ hpc[d] = "getRunning"
  /\ UNCHANGED <<mvars, dvars, tvars>>
  /\ \/ /\ getRunningReleaseTask(status)
        /\ hpc' = [hpc EXCEPT ![d] = "idle"]
        /\ response' = [response EXCEPT ![d] = "200 running"]
        /\ UNCHANGED faults
     \/ /\ ~getRunningReleaseTask(status)
        /\ \E statusTriples \in BOOLEAN :
             IF statusTriples
             THEN /\ hpc' = [hpc EXCEPT ![d] = "getNext"]
                  /\ UNCHANGED response
             ELSE /\ hpc' = [hpc EXCEPT ![d] = "idle"]
                  /\ response' = [response EXCEPT ![d] = "200"]
        /\ UNCHANGED faults
     \/ /\ CanFail /\ Fault
        /\ hpc' = [hpc EXCEPT ![d] = "idle"]
        /\ response' = [response EXCEPT ![d] = "500"]
  /\ UNCHANGED <<status, epc, etask, outcome, thrownAt, notified, raised>>

DeltaGetNext(d) ==
  /\ hpc[d] = "getNext"
  /\ UNCHANGED <<mvars, dvars, tvars>>
  /\ hpc' = [hpc EXCEPT ![d] = "idle"]
  /\ \/ /\ getNextReleaseTask(status) # Null
        /\ StartExecute(d, getNextReleaseTask(status))
        /\ response' = [response EXCEPT ![d] = "202"]
        /\ UNCHANGED faults
     \/ /\ getNextReleaseTask(status) = Null
        /\ response' = [response EXCEPT ![d] = "200"]
        /\ UNCHANGED <<epc, etask, outcome, thrownAt, faults>>
     \/ /\ CanFail /\ Fault
        /\ response' = [response EXCEPT ![d] = "500"]
        /\ UNCHANGED <<epc, etask, outcome, thrownAt>>
  /\ UNCHANGED <<status, notified, raised>>

\* ------------------------------------------ ReleaseTask.persistStatus
\* first update: DELETE WHERE { <task> adms:status ?status }
PersistDelete(st, t) == [st EXCEPT ![t] = {}]
\* second update: INSERT { <task> adms:status <s> } WHERE { <task> a ext:ReleaseTask }
PersistInsert(st, t, s) == [st EXCEPT ![t] = @ \cup {s}]

\* the status execute() is persisting at each of its positions
PersistTarget(pc) ==
  CASE pc \in {"releasing_delete", "releasing_insert"} -> RELEASING
    [] pc \in {"success_delete", "success_insert"} -> SUCCESS
    [] pc \in {"failed_delete", "failed_insert"} -> FAILED
    [] OTHER -> "none"

\* faulty variant of AfterPc: execute() returns after persisting SUCCESS,
\* without the drain
AfterPcNoDrain(pc) ==
  CASE pc = "releasing_delete" -> "releasing_insert"
    [] pc = "releasing_insert" -> "release"
    [] pc = "release" -> "success_delete"
    [] pc = "success_delete" -> "success_insert"
    [] pc = "failed_delete" -> "failed_insert"
    [] pc = "failed_insert" -> "email"
    [] OTHER -> "idle"

\* the position of execute() after the call awaited at pc has returned
AfterPc(pc) ==
  CASE pc = "releasing_delete" -> "releasing_insert"
    [] pc = "releasing_insert" -> "release"
    [] pc = "release" -> "success_delete"
    [] pc = "success_delete" -> "success_insert"
    [] pc = "success_insert" -> "getNext"
    [] pc = "failed_delete" -> "failed_insert"
    [] pc = "failed_insert" -> "email"
    [] OTHER -> "idle"

TryPcs == {"releasing_delete", "releasing_insert", "release",
           "success_delete", "success_insert", "getNext"}
CatchPcs == {"failed_delete", "failed_insert", "email"}
\* the steps of ReleaseTask.release(), awaited one after the other
ReleaseSteps == {"prepare", "linkDataset", "deprecatePrevious", "release"}

\* execute() has ended: its promise is settled, the worker slot is free
EndExecute(w, how) ==
  /\ epc' = [epc EXCEPT ![w] = "idle"]
  /\ etask' = [etask EXCEPT ![w] = Null]
  /\ outcome' = [outcome EXCEPT ![w] = how]
  /\ thrownAt' = [thrownAt EXCEPT ![w] = "none"]

\* an awaited call inside the try block of execute() throws: control moves
\* to the catch block, whose first await is the DELETE of closeWithFailure()
Catch(w, call) ==
  /\ CanFail /\ Fault
  /\ epc' = [epc EXCEPT ![w] = "failed_delete"]
  /\ thrownAt' = [thrownAt EXCEPT ![w] = call]
  /\ raised' = raised \cup {etask[w]}
  /\ UNCHANGED <<status, hpc, response, etask, outcome, notified>>

\* ------------------------------------------------ ReleaseTask.execute
\* await this.persistStatus(RELEASING | SUCCESS), one update per action
ExecPersist(w) ==
  /\ epc[w] \in {"releasing_delete", "releasing_insert",
                 "success_delete", "success_insert"}
  /\ UNCHANGED <<mvars, dvars, tvars>>
  /\ \/ /\ status' = IF epc[w] \in {"releasing_delete", "success_delete"}
                     THEN PersistDelete(status, etask[w])
                     ELSE PersistInsert(status, etask[w], PersistTarget(epc[w]))
        /\ epc' = [epc EXCEPT ![w] = AfterPc(epc[w])]
        /\ UNCHANGED <<hpc, response, etask, outcome, thrownAt, notified, raised, faults>>
     \/ Catch(w, epc[w])

\* await this.release(): prepare, linkDataset, deprecatePrevious, release.
\* No step reads or writes a status triple, so the whole call is one step of
\* the queue: it returns, or one of its steps throws.
ExecRelease(w) ==
  /\ epc[w] = "release"
  /\ UNCHANGED <<mvars, dvars, tvars>>
  /\ \/ /\ epc' = [epc EXCEPT ![w] = AfterPc(epc[w])]
        /\ UNCHANGED <<status, hpc, response, etask, outcome, thrownAt, notified,
                       raised, faults>>
     \/ \E step \in ReleaseSteps : Catch(w, step)

\* const nextTask = await getNextReleaseTask(); if (nextTask) nextTask.execute()
ExecDrain(w) ==
  /\ epc[w] = "getNext"
  /\ UNCHANGED <<mvars, dvars, tvars>>
  /\ \/ /\ getNextReleaseTask(status) # Null
        /\ StartExecute(w, getNextReleaseTask(status))
        /\ UNCHANGED <<status, hpc, response, notified, raised, faults>>
     \/ /\ getNextReleaseTask(status) = Null
        /\ EndExecute(w, "fulfilled")
        /\ UNCHANGED <<status, hpc, response, notified, raised, faults>>
     \/ Catch(w, epc[w])

\* catch: await this.closeWithFailure(), i.e. persistStatus(FAILED); an
\* error of one of its updates leaves the catch block: execute() rejects
ExecCloseWithFailure(w) ==
  /\ epc[w] \in {"failed_delete", "failed_insert"}
  /\ UNCHANGED <<mvars, dvars, tvars>>
  /\ \/ /\ status' = IF epc[w] = "failed_delete"
                     THEN PersistDelete(status, etask[w])
                     ELSE PersistInsert(status, etask[w], FAILED)
        /\ epc' = [epc EXCEPT ![w] = AfterPc(epc[w])]
        /\ UNCHANGED <<hpc, response, etask, outcome, thrownAt, notified, raised, faults>>
     \/ /\ CanFail /\ Fault
        /\ EndExecute(w, "rejected")
        /\ UNCHANGED <<status, hpc, response, notified, raised>>

\* createEmailOnFailure of ./email, delivering: the mail about task t is
\* handed to the mail service
createEmailOnFailure(sent, t) == sent \cup {t}

\* faulty variant of ExecEmail: a delivery failure is handled as a failure
\* of the pipeline, by another closeWithFailure()
ExecEmailCloses(w) ==
  /\ epc[w] = "email"
  /\ UNCHANGED <<mvars, dvars, tvars>>
  /\ \/ /\ notified' = createEmailOnFailure(notified, etask[w])
        /\ EndExecute(w, "fulfilled")
        /\ UNCHANGED <<status, hpc, response, raised, faults>>
     \/ /\ CanFail /\ Fault
        /\ status' = PersistDelete(status, etask[w])
        /\ EndExecute(w, "rejected")
        /\ UNCHANGED <<hpc, response, notified, raised>>

\* catch: await createEmailOnFailure(subject, body)
ExecEmail(w) ==
  /\ epc[w] = "email"
  /\ UNCHANGED <<mvars, dvars, tvars>>
  /\ \/ /\ notified' = createEmailOnFailure(notified, etask[w])
        /\ EndExecute(w, "fulfilled")
        /\ UNCHANGED <<status, hpc, response, raised, faults>>
     \/ /\ CanFail /\ Fault
        /\ EndExecute(w, "rejected")
        /\ UNCHANGED <<status, hpc, response, notified, raised>>

\* ------------------------------------------------------- the environment
\* the producer marks a task ready-for-release (README, Data flow)
ProducerReady(t) ==
  /\ status[t] = {NOT_STARTED}
  /\ UNCHANGED <<mvars, dvars, tvars>>
  /\ status' = [status EXCEPT ![t] = {READY_FOR_RELEASE}]
  /\ UNCHANGED <<hpc, response, epc, etask, outcome, thrownAt, notified, raised, faults>>

\* the operator runs the update printed by logFailureResolutionManual on a
\* failed task: DELETE its status triples, INSERT READY_FOR_RELEASE
OperatorReset(t) ==
  /\ FAILED \in status[t]
  /\ UNCHANGED <<mvars, dvars, tvars>>
  /\ status' = [status EXCEPT ![t] = {READY_FOR_RELEASE}]
  /\ raised' = raised \ {t}
  /\ notified' = notified \ {t}
  /\ UNCHANGED <<hpc, response, epc, etask, outcome, thrownAt, faults>>




\* --------------------------------------------------- graph-helpers.js
\* the universe of triples of the two graphs, and the batch sizes
NumTriples == 4
Triples == 1..NumTriples
UPDATE_BATCH_SIZE == 2
SELECT_BATCH_SIZE == 3

\* ?subject of a triple: two triples share each subject
Subject(x) == (x + 1) \div 2

Min(a, b) == IF a < b THEN a ELSE b

\* countTriples: SELECT (COUNT( * ) as ?count) WHERE { GRAPH <g> { ?s ?p ?o } }
countTriples(g) == Cardinality(g)

\* the rows of GRAPH <g> { ?subject ?predicate ?object } ORDER BY ?subject, as
\* the store lists them: by subject, the triples of one subject in store order
RECURSIVE Ordered(_)
Ordered(g) ==
  IF g = {} THEN <<>>
  ELSE LET x == CHOOSE y \in g : \A z \in g :
                  Subject(y) < Subject(z) \/ (Subject(y) = Subject(z) /\ y <= z)
       IN <<x>> \o Ordered(g \ {x})

\* parseBatch: the rows of one page, LIMIT SELECT_BATCH_SIZE OFFSET off
parseBatch(g, off) ==
  LET rows == Ordered(g)
  IN SubSeq(rows, off + 1, Min(off + SELECT_BATCH_SIZE, Len(rows)))

\* triples.slice(i, i + UPDATE_BATCH_SIZE) of insertInGraph
Slice(seq, from) == SubSeq(seq, from + 1, Min(from + UPDATE_BATCH_SIZE, Len(seq)))

Range(seq) == {seq[k] : k \in 1..Len(seq)}

\* faulty variant of NotInTarget: the pattern on the source graph is one
\* that no triple matches
NotInTargetNone(src, tgt) == {}

\* faulty variant of NotInTarget: the FILTER NOT EXISTS is left out
NotInTargetAll(src, tgt) == src

\* GRAPH <src> { ?s ?p ?o } FILTER NOT EXISTS { GRAPH <tgt> { ?s ?p ?o } }
NotInTarget(src, tgt) == src \ tgt

\* faulty variant of Limit: the subquery selects one row more
LimitOver(g, n) ==
  {sel \in SUBSET g : Cardinality(sel) = Min(n + 1, Cardinality(g))}

\* faulty variant of Limit: the subquery selects one row less
LimitShort(g, n) ==
  {sel \in SUBSET g : Cardinality(sel) = Min(n - 1, Cardinality(g))}

\* the results a subquery SELECT ... LIMIT n may give over the solutions g:
\* any n of them, all of them when there are fewer
Limit(g, n) ==
  {sel \in SUBSET g : Cardinality(sel) = Min(n, Cardinality(g))}

\* faulty variant of TotalBatches: one batch per missing triple
TotalBatchesPerTriple(c) == c

\* faulty variant of TotalBatches: Math.floor(count / limit)
TotalBatchesFloor(c) == c \div UPDATE_BATCH_SIZE

\* Math.ceil(count / limit)
TotalBatches(c) == (c + UPDATE_BATCH_SIZE - 1) \div UPDATE_BATCH_SIZE

\* moveGraph(source, target) is called: any source graph, any target graph
MInit ==
  /\ source \in SUBSET Triples
  /\ target \in SUBSET Triples
  /\ source0 = source
  /\ target0 = target
  /\ mpc = "getTriples"
  /\ triples = <<>>
  /\ count = 0
  /\ offset = 0
  /\ i = 0
  /\ currentBatch = 0
  /\ totalBatches = 0
  /\ updates = 0

\* no moveGraph in progress (the queue specifications)
MIdle ==
  /\ source = {}
  /\ target = {}
  /\ source0 = {}
  /\ target0 = {}
  /\ mpc = "idle"
  /\ triples = <<>>
  /\ count = 0
  /\ offset = 0
  /\ i = 0
  /\ currentBatch = 0
  /\ totalBatches = 0
  /\ updates = 0

\* a store call rejects: nothing in moveGraph catches, moveGraph rejects
MThrow ==
  /\ mpc' = "thrown"
  /\ UNCHANGED <<source, target, triples, count, offset, i, currentBatch,
                 totalBatches, source0, target0, updates>>

\* triples.push(...null) of getTriples throws a TypeError, which nothing in
\* moveGraph catches: moveGraph rejects
MTypeError ==
  /\ mpc' = "typeError"
  /\ UNCHANGED <<source, target, triples, count, offset, i, currentBatch,
                 totalBatches, source0, target0, updates>>

\* after getTriples: insertInGraph, whose loop is skipped for no triples
AfterGetTriples(rows) == IF Len(rows) > 0 THEN "insertInGraph" ELSE "compare"

\* getTriples: const count = await countTriples(graph)
GetTriplesCount ==
  /\ mpc = "getTriples"
  /\ \/ /\ count' = countTriples(source)
        /\ offset' = 0
        /\ mpc' = IF count' > 0 THEN "parseBatch" ELSE AfterGetTriples(triples)
        /\ UNCHANGED <<source, target, triples, i, currentBatch, totalBatches,
                       source0, target0, updates>>
     \/ MThrow
  /\ UNCHANGED <<qvars, dvars, tvars>>

\* getTriples: one turn of while (offset < count); parseBatch gives null for
\* a page without rows, and triples.push(...null) throws a TypeError
GetTriplesPage ==
  /\ mpc = "parseBatch"
  /\ \/ LET result == parseBatch(source, offset) IN
        IF Len(result) = 0
        THEN MTypeError
        ELSE /\ triples' = triples \o result
             /\ offset' = offset + SELECT_BATCH_SIZE
             /\ mpc' = IF offset' < count THEN "parseBatch"
                       ELSE AfterGetTriples(triples')
             /\ UNCHANGED <<source, target, count, i, currentBatch,
                            totalBatches, source0, target0, updates>>
     \/ MThrow
  /\ UNCHANGED <<qvars, dvars, tvars>>

\* insertInGraph: one turn of the loop, one INSERT DATA of a slice; the
\* store may commit only part of the statements of the update (the issue
\* the comment of moveGraph reports) and still return
InsertBatch ==
  /\ mpc = "insertInGraph"
  /\ \/ /\ \E committed \in SUBSET Range(Slice(triples, i)) :
             target' = target \cup committed
        /\ i' = i + UPDATE_BATCH_SIZE
        /\ mpc' = IF i' < Len(triples) THEN "insertInGraph" ELSE "compare"
        /\ updates' = updates + 1
        /\ UNCHANGED <<source, triples, count, offset, currentBatch,
                       totalBatches, source0, target0>>
     \/ MThrow
  /\ UNCHANGED <<qvars, dvars, tvars>>

\* compareGraphAndCopyMissingTriples: the COUNT of the triples of source
\* that target lacks; return when it is 0
CompareCount ==
  /\ mpc = "compare"
  /\ \/ /\ count' = countTriples(NotInTarget(source, target))
        /\ totalBatches' = IF count' = 0 THEN 0 ELSE TotalBatches(count')
        /\ currentBatch' = 0
        /\ mpc' = IF count' # 0 /\ currentBatch' < totalBatches'
                  THEN "copyMissing" ELSE "removeGraph"
        /\ UNCHANGED <<source, target, triples, offset, i, source0, target0,
                       updates>>
     \/ MThrow
  /\ UNCHANGED <<qvars, dvars, tvars>>

\* compareGraphAndCopyMissingTriples: one turn of
\* while (currentBatch < totalBatches): INSERT ... WHERE { SELECT ... LIMIT }
CopyMissingBatch ==
  /\ mpc = "copyMissing"
  /\ \/ /\ \E sel \in Limit(NotInTarget(source, target), UPDATE_BATCH_SIZE) :
             target' = target \cup sel
        /\ currentBatch' = currentBatch + 1
        /\ mpc' = IF currentBatch' < totalBatches THEN "copyMissing"
                  ELSE "removeGraph"
        /\ updates' = updates + 1
        /\ UNCHANGED <<source, triples, count, offset, i, totalBatches,
                       source0, target0>>
     \/ MThrow
  /\ UNCHANGED <<qvars, dvars, tvars>>

\* removeGraph: const count = await countTriples(graph)
RemoveGraphCount ==
  /\ mpc = "removeGraph"
  /\ \/ /\ count' = countTriples(source)
        /\ offset' = 0
        /\ mpc' = IF count' > 0 THEN "delete" ELSE "done"
        /\ UNCHANGED <<source, target, triples, i, currentBatch, totalBatches,
                       source0, target0, updates>>
     \/ MThrow
  /\ UNCHANGED <<qvars, dvars, tvars>>

\* removeGraph: one turn of while (offset < count): DELETE of the triples a
\* subquery with LIMIT UPDATE_BATCH_SIZE selects
RemoveGraphBatch ==
  /\ mpc = "delete"
  /\ \/ /\ \E sel \in Limit(source, UPDATE_BATCH_SIZE) :
             source' = source \ sel
        /\ offset' = offset + UPDATE_BATCH_SIZE
        /\ mpc' = IF offset' < count THEN "delete" ELSE "done"
        /\ updates' = updates + 1
        /\ UNCHANGED <<target, triples, count, i, currentBatch, totalBatches,
                       source0, target0>>
     \/ MThrow
  /\ UNCHANGED <<qvars, dvars, tvars>>

\* ------------------------------------- graph-helpers.js: toTripleStatement
\* strings are sequences of characters; QUOTE and BACKSLASH are the two
\* characters sparqlEscapeString escapes, QUOTES is the delimiter """
QUOTE == "quote"
BACKSLASH == "backslash"
QUOTES == "quotes"

\* value, datatype and xml:lang of the terms a SELECT gives; an absent
\* datatype or xml:lang is the empty string (falsy, as undefined is)
Absent == <<>>
Values == {<<>>, <<"a">>, <<"a", QUOTE>>, <<BACKSLASH, "a">>, <<"a", "a">>}
XSD_STRING == <<"http://www.w3.org/2001/XMLSchema#string">>
XSD_INTEGER == <<"http://www.w3.org/2001/XMLSchema#integer">>
Datatypes == {XSD_STRING, XSD_INTEGER}
Langs == {<<"nl">>, <<"en">>}

RdfTerm(type, value, datatype, lang) ==
  [type |-> type, value |-> value, datatype |-> datatype, lang |-> lang]

NoTerm == RdfTerm("none", Absent, Absent, Absent)

\* the terms of the bindings of a SELECT: a uri or a blank node has neither
\* datatype nor language, a literal has at most one of the two
Terms ==
  {RdfTerm(ty, v, Absent, Absent) : ty \in {"uri", "bnode", "literal"}, v \in Values}
    \cup {RdfTerm(ty, v, dt, Absent) :
            ty \in {"literal", "typed-literal"}, v \in Values, dt \in Datatypes}
    \cup {RdfTerm("literal", v, Absent, l) : v \in Values, l \in Langs}

\* value.replace(/[\\"]/g, match => '\\' + match) of sparqlEscapeString
RECURSIVE EscapeChars(_)
EscapeChars(v) ==
  IF v = <<>> THEN <<>>
  ELSE (IF Head(v) \in {QUOTE, BACKSLASH} THEN <<BACKSLASH, Head(v)>>
        ELSE <<Head(v)>>) \o EscapeChars(Tail(v))

\* sparqlEscapeString of mu: """ + the escaped value + """
sparqlEscapeString(v) == <<QUOTES>> \o EscapeChars(v) \o <<QUOTES>>

\* sparqlEscapeUri of mu: < + the escaped value + >
sparqlEscapeUri(v) == <<"<">> \o EscapeChars(v) \o <<">">>

\* faulty variant of escape: the datatype xsd:string is written as any
\* other datatype
escapeTyped(rdfTerm) ==
  IF rdfTerm.type = "uri" THEN sparqlEscapeUri(rdfTerm.value)
  ELSE IF rdfTerm.type \in {"literal", "typed-literal"}
  THEN IF rdfTerm.datatype # Absent
       THEN sparqlEscapeString(rdfTerm.value) \o <<"^^">>
              \o sparqlEscapeUri(rdfTerm.datatype)
       ELSE IF rdfTerm.lang # Absent
       THEN sparqlEscapeString(rdfTerm.value) \o <<"@">> \o rdfTerm.lang
       ELSE sparqlEscapeString(rdfTerm.value)
  ELSE sparqlEscapeString(rdfTerm.value)

\* faulty variant of escape: the language tag of a literal is not written
escapeNoLang(rdfTerm) ==
  IF rdfTerm.type = "uri" THEN sparqlEscapeUri(rdfTerm.value)
  ELSE IF rdfTerm.type \in {"literal", "typed-literal"}
  THEN IF rdfTerm.datatype # Absent /\ rdfTerm.datatype # XSD_STRING
       THEN sparqlEscapeString(rdfTerm.value) \o <<"^^">>
              \o sparqlEscapeUri(rdfTerm.datatype)
       ELSE sparqlEscapeString(rdfTerm.value)
  ELSE sparqlEscapeString(rdfTerm.value)

\* escape of toTripleStatement
escape(rdfTerm) ==
  IF rdfTerm.type = "uri" THEN sparqlEscapeUri(rdfTerm.value)
  ELSE IF rdfTerm.type \in {"literal", "typed-literal"}
  THEN IF rdfTerm.datatype # Absent /\ rdfTerm.datatype # XSD_STRING
       THEN sparqlEscapeString(rdfTerm.value) \o <<"^^">>
              \o sparqlEscapeUri(rdfTerm.datatype)
       ELSE IF rdfTerm.lang # Absent
       THEN sparqlEscapeString(rdfTerm.value) \o <<"@">> \o rdfTerm.lang
       ELSE sparqlEscapeString(rdfTerm.value)
  ELSE sparqlEscapeString(rdfTerm.value)

\* the store reads an escaped value: a backslash stands before the
\* character it escapes
RECURSIVE UnescapeChars(_)
UnescapeChars(v) ==
  IF v = <<>> THEN <<>>
  ELSE IF Head(v) = BACKSLASH /\ Len(v) > 1
  THEN <<v[2]>> \o UnescapeChars(SubSeq(v, 3, Len(v)))
  ELSE <<Head(v)>> \o UnescapeChars(Tail(v))

\* the term a SELECT gives for an object the store has parsed from the
\* string st of an INSERT DATA: <uri>, """value""", """value"""^^<datatype>
\* or """value"""@lang
ReadBack(st) ==
  IF Head(st) = "<"
  THEN RdfTerm("uri", UnescapeChars(SubSeq(st, 2, Len(st) - 1)), Absent, Absent)
  ELSE LET close == CHOOSE k \in 2..Len(st) :
                      st[k] = QUOTES /\ \A j \in 2..(k - 1) : st[j] # QUOTES
           value == UnescapeChars(SubSeq(st, 2, close - 1))
           rest == SubSeq(st, close + 1, Len(st))
       IN IF rest = <<>> THEN RdfTerm("literal", value, Absent, Absent)
          ELSE IF Head(rest) = "@"
          THEN RdfTerm("literal", value, Absent, Tail(rest))
          ELSE RdfTerm("typed-literal", value,
                       UnescapeChars(SubSeq(rest, 3, Len(rest) - 1)), Absent)

\* toTripleStatement is given a term of a binding
CodecInit ==
  /\ term \in Terms
  /\ statement = <<>>
  /\ stored = NoTerm
  /\ tpc = "escape"
  /\ pageSize = 1
  /\ batchSize = 1
  /\ fetchGraph = {}
  /\ fetched = <<>>
  /\ fetchCount = 0
  /\ fetchOffset = 0
  /\ reads = <<>>
  /\ insertIndex = 0
  /\ inserts = <<>>
  /\ bpc = "idle"
  /\ dispatched = 0

\* toTripleStatement: escape(triple.object)
Escape ==
  /\ tpc = "escape"
  /\ statement' = escape(term)
  /\ tpc' = "insert"
  /\ UNCHANGED <<term, stored, pageSize, batchSize, fetchGraph, fetched,
                 fetchCount, fetchOffset, reads, insertIndex, inserts, bpc,
                 dispatched>>
  /\ UNCHANGED <<qvars, mvars, dvars>>

\* the statement is inserted (insertInGraph) and a later SELECT (getTriples)
\* gives the term back
InsertAndSelect ==
  /\ tpc = "insert"
  /\ stored' = ReadBack(statement)
  /\ tpc' = "selected"
  /\ UNCHANGED <<term, statement, pageSize, batchSize, fetchGraph, fetched,
                 fetchCount, fetchOffset, reads, insertIndex, inserts, bpc,
                 dispatched>>
  /\ UNCHANGED <<qvars, mvars, dvars>>

\* ------------------- graph-helpers.js: getTriples, then insertInGraph
\* a graph of up to MaxRows triples that nothing changes during the run, read
\* with any SELECT_BATCH_SIZE and written with any UPDATE_BATCH_SIZE up to
\* MaxBatch
MaxRows == 5
MaxBatch == 3

\* the orders in which the store may list the triples of g for ORDER BY
\* ?subject: by subject, the triples of one subject in any order, which the
\* query leaves to the store and which may differ from one query to the next
RECURSIVE Orderings(_)
Orderings(g) ==
  IF g = {} THEN {<<>>}
  ELSE UNION {{<<x>> \o rest : rest \in Orderings(g \ {x})} :
                x \in {y \in g : \A z \in g : Subject(y) <= Subject(z)}}

\* the rows of a SELECT ... LIMIT limit OFFSET off over the rows seq
LimitOffset(seq, limit, off) ==
  SubSeq(seq, off + 1, Min(off + limit, Len(seq)))

\* faulty variant of slice: the last element of the slice is left out
sliceShort(seq, from, to) == SubSeq(seq, from + 1, Min(to, Len(seq)) - 1)

\* Array.prototype.slice(from, to)
slice(seq, from, to) == SubSeq(seq, from + 1, Min(to, Len(seq)))

BatchInit ==
  /\ fetchGraph \in {1..n : n \in 0..MaxRows}
  /\ pageSize \in 1..MaxBatch
  /\ batchSize \in 1..MaxBatch
  /\ fetched = <<>>
  /\ fetchCount = 0
  /\ fetchOffset = 0
  /\ reads = <<>>
  /\ insertIndex = 0
  /\ inserts = <<>>
  /\ bpc = "countTriples"
  /\ dispatched = 0
  /\ term = NoTerm
  /\ statement = <<>>
  /\ stored = NoTerm
  /\ tpc = "idle"

\* insertInGraph(triples, target) after getTriples has returned triples
AfterFetch(got) == IF Len(got) > 0 THEN "insertInGraph" ELSE "done"

\* getTriples: const count = await countTriples(graph)
FetchCount ==
  /\ bpc = "countTriples"
  /\ fetchCount' = countTriples(fetchGraph)
  /\ bpc' = IF fetchCount' > 0 THEN "parseBatch" ELSE AfterFetch(fetched)
  /\ UNCHANGED <<pageSize, batchSize, fetchGraph, fetched, fetchOffset, reads,
                 insertIndex, inserts>>
  /\ UNCHANGED <<term, statement, stored, tpc, dispatched>>
  /\ UNCHANGED <<qvars, mvars, dvars>>

\* getTriples: one turn of while (offset < count), one paged read
FetchPage ==
  /\ bpc = "parseBatch"
  /\ \E listed \in Orderings(fetchGraph) :
       LET result == LimitOffset(listed, pageSize, fetchOffset) IN
       IF Len(result) = 0
       THEN /\ bpc' = "typeError"
            /\ reads' = Append(reads, <<fetchOffset, result>>)
            /\ UNCHANGED <<fetched, fetchOffset>>
       ELSE /\ reads' = Append(reads, <<fetchOffset, result>>)
            /\ fetched' = fetched \o result
            /\ fetchOffset' = fetchOffset + pageSize
            /\ bpc' = IF fetchOffset' < fetchCount THEN "parseBatch"
                      ELSE AfterFetch(fetched')
  /\ UNCHANGED <<pageSize, batchSize, fetchGraph, fetchCount, insertIndex,
                 inserts>>
  /\ UNCHANGED <<term, statement, stored, tpc, dispatched>>
  /\ UNCHANGED <<qvars, mvars, dvars>>

\* insertInGraph: one turn of the loop, one INSERT DATA of a slice
InsertSlice ==
  /\ bpc = "insertInGraph"
  /\ inserts' = Append(inserts, slice(fetched, insertIndex, insertIndex + batchSize))
  /\ insertIndex' = insertIndex + batchSize
  /\ bpc' = IF insertIndex' < Len(fetched) THEN "insertInGraph" ELSE "done"
  /\ UNCHANGED <<pageSize, batchSize, fetchGraph, fetched, fetchCount,
                 fetchOffset, reads>>
  /\ UNCHANGED <<term, statement, stored, tpc, dispatched>>
  /\ UNCHANGED <<qvars, mvars, dvars>>

\* ------------------------------------------------------------ dataset.js
\* the release tasks of one meeting, released one after the other, and the
\* store calls that may reject over all of them
NumReleases == 2
MaxFailures == 1
Releases == 1..NumReleases

\* every run of release() makes a new Dataset with a fresh mu.uuid(); the
\* datasets are numbered in the order of their construction, and Date.now()
\* of the run that made dataset d is the timestamp d; the last number is
\* that of a dataset of another meeting, released before them
Datasets == 1..(NumReleases + MaxFailures + 1)
NeighbourDataset == NumReleases + MaxFailures + 1

\* the triples the producer may put in a staging graph: triple 1 stands for
\* <meeting> a VERGADERACTIVITEIT_TYPE ; besluit:geplandeStart ?start
NumContent == 2
Content == 1..NumContent
Data(k) == <<"data", k>>
Meeting == Data(1)
\* <otherMeeting> a VERGADERACTIVITEIT_TYPE ; besluit:geplandeStart ?start:
\* the meeting of another staging graph
OtherMeeting == Data(0)

\* <d> a dcat:Dataset ; dct:subject <meeting> ; mu:uuid, dct:type,
\* dct:created, dct:issued, dct:title
Record(d) == <<"dataset", d>>
\* the same for a dataset whose dct:subject is <otherMeeting>
OtherRecord(d) == <<"otherDataset", d>>
\* <d> dct:modified ts
Modified(d, ts) == <<"modified", d, ts>>
\* <d> prov:wasRevisionOf <p>
RevisionOf(d, p) == <<"wasRevisionOf", d, p>>
\* the TTL file f: <share://f> a nfo:FileDataObject ; nie:dataSource <file/f>
\* and <file/f> a nfo:FileDataObject ; mu:uuid, with their other properties
File(f) == <<"file", f>>
\* <d> dcat:distribution <x> and <x> a dcat:Distribution ; dct:type ;
\* dct:subject <file/f> ; dct:created, dct:issued: the distribution of
\* dataset d for file f, of type DATASET_NEWSITEM_TYPE when f is the TTL
\* file of d itself and of type DATASET_ATTACHMENT_TYPE otherwise
Distribution(d, f) == <<"distribution", d, f>>
\* <x> dcat:downloadURL <HOST_DOMAIN/files/f/download>
DownloadURL(d, f) == <<"downloadURL", d, f>>
\* <x> dct:modified ts
DistModified(d, f, ts) == <<"distributionModified", d, f, ts>>
\* <catalog> dcat:dataset <d> and <catalog> dct:modified ts
CatalogDataset(d) == <<"catalogDataset", d>>
CatalogModified(ts) == <<"catalogModified", ts>>

\* the two resources of a TTL file, as terms
PhysicalFile(f) == <<"share", f>>
LogicalFile(f) == <<"id/file", f>>

\* the staging graphs the producer may hand over: the meeting and any of
\* the other content triples
ProducerGraphs == {{Data(k) : k \in c} : c \in {c \in SUBSET Content : 1 \in c}}

\* ---------------------------------------------------- dataset.js: queries
\* generateAttachmentDistributions: ?s a nfo:FileDataObject ;
\* nie:dataSource ?logicalFile . ?logicalFile mu:uuid ?logicalFileUuid
Attachments(g) == {f \in Datasets : File(f) \in g}

\* dct:subject of the distribution that generateTtlDistribution (f the TTL
\* file of d) or generateAttachmentDistributions writes: the logical file
DistributionSubject(d, f) == LogicalFile(f)

\* faulty variant of HeadDatasets: the query does not join the dataset to
\* the meeting of the staging graph with dct:subject
HeadDatasetsAnySubject(staging, public) ==
  IF Meeting \notin staging /\ OtherMeeting \notin staging THEN {}
  ELSE {p \in Datasets :
          /\ Record(p) \in public \/ OtherRecord(p) \in public
          /\ ~ \E n \in Datasets : RevisionOf(n, p) \in public}

\* deprecatePrevious: ?dataset a dcat:Dataset ; dct:subject ?meeting in
\* PUBLIC_GRAPH, FILTER NOT EXISTS { ?newerVersion prov:wasRevisionOf
\* ?dataset }, for the ?meeting of the staging graph
HeadDatasets(staging, public) ==
  {p \in Datasets :
     /\ \/ Meeting \in staging /\ Record(p) \in public
        \/ OtherMeeting \in staging /\ OtherRecord(p) \in public
     /\ ~ \E n \in Datasets : RevisionOf(n, p) \in public}

\* removeDeprecatedTriples: ?physicalFileUri a nfo:FileDataObject ;
\* nie:dataSource ?logicalFileUri . <previousDataset> dcat:distribution
\* ?distribution . ?distribution dct:type DATASET_NEWSITEM_TYPE ;
\* dct:subject ?physicalFileUri: the files whose physical resource is the
\* subject of the TTL distribution of the previous dataset
SnapshotLookup(public, previous) ==
  {f \in Datasets :
     /\ File(f) \in public
     /\ Distribution(previous, previous) \in public
     /\ DistributionSubject(previous, previous) = PhysicalFile(f)}

\* deleteTriplesFromTtl(ttlFile, graph): the graph without the triples
\* that the file records
deleteTriplesFromTtl(file, graph) == graph \ file

\* faulty variant of DeprecateDeletes: the DELETE takes the record of the
\* previous dataset as well
DeprecateDeletesRecord(public, previous) ==
  {Record(previous)}
  \cup {Modified(previous, ts) : ts \in Datasets}
  \cup {DownloadURL(previous, f) : f \in Datasets}

\* deprecateDistributions, the DELETE: for every solution of
\* <previous> dcat:distribution ?distribution ; dct:modified ?m1 .
\* ?distribution dcat:downloadURL ?url ; dct:modified ?m2
\* the triples <previous> dct:modified ?m1, ?distribution dcat:downloadURL
\* ?url and ?distribution dct:modified ?m2
DeprecateDeletes(public, previous) ==
  LET dists == {f \in Datasets :
                  /\ Distribution(previous, f) \in public
                  /\ DownloadURL(previous, f) \in public
                  /\ \E ts \in Datasets :
                       DistModified(previous, f, ts) \in public}
      stamps == {ts \in Datasets : Modified(previous, ts) \in public}
  IN IF dists = {} \/ stamps = {} THEN {}
     ELSE {Modified(previous, ts) : ts \in stamps}
          \cup {DownloadURL(previous, f) : f \in dists}
          \cup {DistModified(previous, f, ts) : f \in dists, ts \in Datasets}

\* deprecateDistributions, the INSERT: dct:modified now for every
\* ?distribution of <previous> dcat:distribution ?distribution, and for
\* <previous> when there is one
DeprecateInserts(public, previous, now) ==
  LET dists == {f \in Datasets : Distribution(previous, f) \in public}
  IN IF dists = {} THEN {}
     ELSE {Modified(previous, now)}
          \cup {DistModified(previous, f, now) : f \in dists}

\* ORDER BY ?subject over the URIs the service mints: the triples of
\* .../id/dataset/d, then those of .../id/distribution/x, then the files,
\* then the content of the producer; the triples of one subject in the
\* order of their predicates
Rank(x) ==
  CASE x[1] = "modified" -> 1000 + 100 * x[2] + x[3]
    [] x[1] = "dataset" -> 1000 + 100 * x[2] + 50
    [] x[1] = "wasRevisionOf" -> 1000 + 100 * x[2] + 50 + x[3]
    [] x[1] = "distributionModified" -> 2000 + 100 * x[2] + 10 * x[3]
    [] x[1] = "distribution" -> 2000 + 100 * x[2] + 10 * x[3] + 1
    [] x[1] = "downloadURL" -> 2000 + 100 * x[2] + 10 * x[3] + 2
    [] x[1] = "file" -> 3000 + x[2]
    [] OTHER -> 4000 + x[2]

\* the first n triples of the set g in that order
RECURSIVE First(_, _)
First(g, n) ==
  IF n = 0 \/ g = {} THEN {}
  ELSE LET x == CHOOSE y \in g : \A z \in g : Rank(y) <= Rank(z)
       IN {x} \cup First(g \ {x}, n - 1)

\* the triples one update of moveGraph may take from the set g: the next
\* triples of g, up to UPDATE_BATCH_SIZE of them, as the batch boundaries
\* may fall anywhere in the list
Batches(g) == {First(g, n) : n \in 1..UPDATE_BATCH_SIZE}

\* -------------------------------------------- dataset.js: one release
\* the public graph is empty and the first task is Ready
RInit ==
  /\ pub = {}
  /\ stg \in ProducerGraphs
  /\ snapshot = [d \in Datasets |-> {}]
  /\ generated = {}
  /\ rtask = 1
  /\ rstatus = READY_FOR_RELEASE
  /\ rpc = "idle"
  /\ dataset = Null
  /\ previousDataset = Null
  /\ bindings = {}
  /\ stg0 = {}
  /\ failures = 0
  /\ calls = 0

\* faulty variant of ReleaseFails: the catch block rolls the release back,
\* taking out of the public graph what is still in the staging graph and
\* taking away the link of the task to its dataset
ReleaseFailsRollback ==
  /\ failures < MaxFailures
  /\ failures' = failures + 1
  /\ rstatus' = FAILED
  /\ rpc' = "idle"
  /\ previousDataset' = Null
  /\ bindings' = {}
  /\ stg0' = {}
  /\ pub' = pub \ stg
  /\ generated' = generated \ {<<rtask, dataset>>}
  /\ UNCHANGED <<calls, stg, snapshot, rtask, dataset>>

\* a store call of the release rejects: execute() catches, closeWithFailure
\* sets the task to Failed; nothing in the store is rolled back, and the
\* locals of the rejected calls are gone
ReleaseFails ==
  /\ failures < MaxFailures
  /\ failures' = failures + 1
  /\ rstatus' = FAILED
  /\ rpc' = "idle"
  /\ previousDataset' = Null
  /\ bindings' = {}
  /\ stg0' = {}
  /\ UNCHANGED <<calls, pub, stg, snapshot, generated, rtask, dataset>>

\* faulty variant of ReleaseGoes: Dataset.release() calls moveGraph right
\* after generateDataset, without addToCatalog
ReleaseGoesEarly(next) ==
  /\ rpc' = IF next = "addToCatalog" THEN "moveGraph" ELSE next
  /\ UNCHANGED <<calls, rtask, rstatus, failures>>

\* the step of the release at position pc returns and the release goes on
\* at position next, with the task and the counters as they are
ReleaseGoes(next) ==
  /\ rpc' = next
  /\ UNCHANGED <<calls, rtask, rstatus, failures>>

\* execute(): persistStatus(RELEASING), then release() constructs the
\* Dataset and prepare() gives it a fresh uuid
Execute ==
  /\ rstatus = READY_FOR_RELEASE /\ rpc = "idle"
  /\ \/ /\ rstatus' = RELEASING
        /\ dataset' = dataset + 1
        /\ rpc' = "generateTtlFile"
        /\ UNCHANGED <<calls, pub, stg, snapshot, generated, rtask,
                       previousDataset, bindings, stg0, failures>>
     \/ ReleaseFails
  /\ UNCHANGED <<qvars, mvars, tvars>>

\* generateTtlFile: writeToFile(this.filePath, this.graph)
GenerateTtlFile ==
  /\ rpc = "generateTtlFile"
  /\ \/ /\ snapshot' = [snapshot EXCEPT ![dataset] = stg]
        /\ ReleaseGoes("generateAttachmentDistributions")
        /\ UNCHANGED <<pub, stg, generated, dataset, previousDataset,
                       bindings, stg0>>
     \/ ReleaseFails
  /\ UNCHANGED <<qvars, mvars, tvars>>

\* generateAttachmentDistributions: the query for the files of the graph
GenerateAttachmentDistributions ==
  /\ rpc = "generateAttachmentDistributions"
  /\ \/ /\ bindings' = Attachments(stg)
        /\ ReleaseGoes(IF bindings' = {} THEN "generateTtlDistribution"
                       ELSE "attachment")
        /\ UNCHANGED <<pub, stg, snapshot, generated, dataset,
                       previousDataset, stg0>>
     \/ ReleaseFails
  /\ UNCHANGED <<qvars, mvars, tvars>>

\* generateAttachmentDistributions: one turn of the loop over the bindings,
\* the INSERT DATA of one distribution
AttachmentDistribution ==
  /\ rpc = "attachment"
  /\ \/ \E f \in bindings :
          /\ stg' = stg \cup {Distribution(dataset, f),
                              DownloadURL(dataset, f),
                              DistModified(dataset, f, dataset)}
          /\ bindings' = bindings \ {f}
          /\ ReleaseGoes(IF bindings' = {} THEN "generateTtlDistribution"
                         ELSE "attachment")
          /\ UNCHANGED <<pub, snapshot, generated, dataset, previousDataset,
                         stg0>>
     \/ ReleaseFails
  /\ UNCHANGED <<qvars, mvars, tvars>>

\* generateTtlDistribution: INSERT { the two file resources, the
\* distribution, its link } WHERE { ?meeting a VERGADERACTIVITEIT_TYPE }
GenerateTtlDistribution ==
  /\ rpc = "generateTtlDistribution"
  /\ \/ /\ stg' = IF Meeting \in stg
                   THEN stg \cup {File(dataset),
                                  Distribution(dataset, dataset),
                                  DownloadURL(dataset, dataset),
                                  DistModified(dataset, dataset, dataset)}
                   ELSE stg
        /\ ReleaseGoes("linkDataset")
        /\ UNCHANGED <<pub, snapshot, generated, dataset, previousDataset,
                       bindings, stg0>>
     \/ ReleaseFails
  /\ UNCHANGED <<qvars, mvars, tvars>>

\* linkDataset: <task> prov:generated <dataset>
LinkDataset ==
  /\ rpc = "linkDataset"
  /\ \/ /\ generated' = generated \cup {<<rtask, dataset>>}
        /\ ReleaseGoes("deprecatePrevious")
        /\ UNCHANGED <<pub, stg, snapshot, dataset, previousDataset,
                       bindings, stg0>>
     \/ ReleaseFails
  /\ UNCHANGED <<qvars, mvars, tvars>>

\* deprecatePrevious: the query for the previous dataset, LIMIT 1
DeprecatePrevious ==
  /\ rpc = "deprecatePrevious"
  /\ \/ /\ HeadDatasets(stg, pub) = {}
        /\ previousDataset' = Null
        /\ ReleaseGoes("generateDataset")
        /\ UNCHANGED <<pub, stg, snapshot, generated, dataset, bindings,
                       stg0>>
     \/ \E p \in HeadDatasets(stg, pub) :
          /\ previousDataset' = p
          /\ ReleaseGoes("wasRevisionOf")
          /\ UNCHANGED <<pub, stg, snapshot, generated, dataset, bindings,
                         stg0>>
     \/ ReleaseFails
  /\ UNCHANGED <<qvars, mvars, tvars>>

\* deprecatePrevious: INSERT DATA <this.uri> prov:wasRevisionOf <previous>
\* in the staging graph
InsertRevisionOf ==
  /\ rpc = "wasRevisionOf"
  /\ \/ /\ stg' = stg \cup {RevisionOf(dataset, previousDataset)}
        /\ ReleaseGoes("removeDeprecatedTriples")
        /\ UNCHANGED <<pub, snapshot, generated, dataset, previousDataset,
                       bindings, stg0>>
     \/ ReleaseFails
  /\ UNCHANGED <<qvars, mvars, tvars>>

\* removeDeprecatedTriples: the query for the TTL file of the previous
\* dataset and, for its first binding, deleteTriplesFromTtl
RemoveDeprecatedTriples ==
  /\ rpc = "removeDeprecatedTriples"
  /\ \/ /\ LET found == SnapshotLookup(pub, previousDataset)
           IN pub' = IF found = {} THEN pub
                     ELSE deleteTriplesFromTtl(
                            snapshot[CHOOSE f \in found : TRUE], pub)
        /\ ReleaseGoes("deprecateDelete")
        /\ UNCHANGED <<stg, snapshot, generated, dataset, previousDataset,
                       bindings, stg0>>
     \/ ReleaseFails
  /\ UNCHANGED <<qvars, mvars, tvars>>

\* deprecateDistributions: the DELETE
DeprecateDelete ==
  /\ rpc = "deprecateDelete"
  /\ \/ /\ pub' = pub \ DeprecateDeletes(pub, previousDataset)
        /\ ReleaseGoes("deprecateInsert")
        /\ UNCHANGED <<stg, snapshot, generated, dataset, previousDataset,
                       bindings, stg0>>
     \/ ReleaseFails
  /\ UNCHANGED <<qvars, mvars, tvars>>

\* deprecateDistributions: the INSERT, with now = Date.now()
DeprecateInsert ==
  /\ rpc = "deprecateInsert"
  /\ \/ /\ pub' = pub \cup DeprecateInserts(pub, previousDataset, dataset)
        /\ ReleaseGoes("generateDataset")
        /\ UNCHANGED <<stg, snapshot, generated, dataset, previousDataset,
                       bindings, stg0>>
     \/ ReleaseFails
  /\ UNCHANGED <<qvars, mvars, tvars>>

\* generateDataset: INSERT { <this.uri> a dcat:Dataset ; ... } WHERE
\* { ?meeting a VERGADERACTIVITEIT_TYPE } in the staging graph
GenerateDataset ==
  /\ rpc = "generateDataset"
  /\ \/ /\ stg' = IF Meeting \in stg
                   THEN stg \cup {Record(dataset), Modified(dataset, dataset)}
                   ELSE stg
        /\ ReleaseGoes("addToCatalog")
        /\ UNCHANGED <<pub, snapshot, generated, dataset, previousDataset,
                       bindings, stg0>>
     \/ ReleaseFails
  /\ UNCHANGED <<qvars, mvars, tvars>>

\* addToCatalog: DELETE WHERE { <catalog> dct:modified ?modified }
CatalogDelete ==
  /\ rpc = "addToCatalog"
  /\ \/ /\ pub' = pub \ {CatalogModified(ts) : ts \in Datasets}
        /\ ReleaseGoes("catalogInsert")
        /\ UNCHANGED <<stg, snapshot, generated, dataset, previousDataset,
                       bindings, stg0>>
     \/ ReleaseFails
  /\ UNCHANGED <<qvars, mvars, tvars>>

\* addToCatalog: INSERT DATA { <catalog> dct:modified now ; dcat:dataset
\* <this.uri> } in PUBLIC_GRAPH; release() then calls moveGraph
CatalogInsert ==
  /\ rpc = "catalogInsert"
  /\ \/ /\ pub' = pub \cup {CatalogModified(dataset), CatalogDataset(dataset)}
        /\ stg0' = stg
        /\ ReleaseGoes("moveGraph")
        /\ UNCHANGED <<stg, snapshot, generated, dataset, previousDataset,
                       bindings>>
     \/ ReleaseFails
  /\ UNCHANGED <<qvars, mvars, tvars>>

\* faulty variant of AfterCopy: moveGraph without removeGraph
AfterCopySkip == "persistSuccess"

\* moveGraph: after compareGraphAndCopyMissingTriples comes removeGraph
AfterCopy == "removeGraph"

\* moveGraph(this.graph, PUBLIC_GRAPH): one update of insertInGraph or of
\* the repair loop puts a batch of the staging graph in the public graph;
\* compareGraphAndCopyMissingTriples returns when none is missing
MoveCopy ==
  /\ rpc = "moveGraph"
  /\ \/ /\ stg \subseteq pub
        /\ ReleaseGoes(AfterCopy)
        /\ UNCHANGED <<pub, stg, snapshot, generated, dataset,
                       previousDataset, bindings, stg0>>
     \/ \E sel \in Batches(NotInTarget(stg, pub)) :
          /\ pub' = pub \cup sel
          /\ ReleaseGoes(IF stg \subseteq pub' THEN AfterCopy
                         ELSE "moveGraph")
          /\ UNCHANGED <<stg, snapshot, generated, dataset, previousDataset,
                         bindings, stg0>>
     \/ ReleaseFails
  /\ UNCHANGED <<qvars, mvars, tvars>>

\* moveGraph: removeGraph(this.graph), one DELETE of a batch; it returns
\* when the staging graph is empty
MoveRemove ==
  /\ rpc = "removeGraph"
  /\ \/ /\ stg = {}
        /\ ReleaseGoes("persistSuccess")
        /\ UNCHANGED <<pub, stg, snapshot, generated, dataset,
                       previousDataset, bindings, stg0>>
     \/ \E sel \in Batches(stg) :
          /\ stg' = stg \ sel
          /\ ReleaseGoes(IF stg' = {} THEN "persistSuccess"
                         ELSE "removeGraph")
          /\ UNCHANGED <<pub, snapshot, generated, dataset, previousDataset,
                         bindings, stg0>>
     \/ ReleaseFails
  /\ UNCHANGED <<qvars, mvars, tvars>>

\* execute(): persistStatus(SUCCESS)
PersistSuccess ==
  /\ rpc = "persistSuccess"
  /\ \/ /\ rstatus' = SUCCESS
        /\ rpc' = "idle"
        /\ UNCHANGED <<calls, pub, stg, snapshot, generated, rtask, dataset,
                       previousDataset, bindings, stg0, failures>>
     \/ ReleaseFails
  /\ UNCHANGED <<qvars, mvars, tvars>>

\* the drain: getNextReleaseTask gives the next task of the meeting, whose
\* staging graph the producer has filled
NextRelease ==
  /\ rstatus = SUCCESS /\ rpc = "idle"
  /\ rtask < NumReleases
  /\ rtask' = rtask + 1
  /\ rstatus' = READY_FOR_RELEASE
  /\ stg' \in ProducerGraphs
  /\ UNCHANGED <<calls, pub, snapshot, generated, rpc, dataset,
                 previousDataset, bindings, stg0, failures>>
  /\ UNCHANGED <<qvars, mvars, tvars>>

\* the operator resets the Failed task to ready-for-release, with the
\* query logFailureResolutionManual prints, and restarts the service
ResetFailedRelease ==
  /\ rstatus = FAILED /\ rpc = "idle"
  /\ rstatus' = READY_FOR_RELEASE
  /\ UNCHANGED <<calls, pub, stg, snapshot, generated, rtask, rpc, dataset,
                 previousDataset, bindings, stg0, failures>>
  /\ UNCHANGED <<qvars, mvars, tvars>>

\* ------------------------------------------------------ specifications
\* no dataset release and no repeated verification in progress
DIdle ==
  /\ calls = 0
  /\ pub = {}
  /\ stg = {}
  /\ snapshot = [d \in Datasets |-> {}]
  /\ generated = {}
  /\ rtask = 1
  /\ rstatus = NOT_STARTED
  /\ rpc = "idle"
  /\ dataset = Null
  /\ previousDataset = Null
  /\ bindings = {}
  /\ stg0 = {}
  /\ failures = 0

\* no term is being encoded and no paging run is in progress
TIdle ==
  /\ term = NoTerm
  /\ statement = <<>>
  /\ stored = NoTerm
  /\ tpc = "idle"
  /\ pageSize = 1
  /\ batchSize = 1
  /\ fetchGraph = {}
  /\ fetched = <<>>
  /\ fetchCount = 0
  /\ fetchOffset = 0
  /\ reads = <<>>
  /\ insertIndex = 0
  /\ inserts = <<>>
  /\ bpc = "idle"
  /\ dispatched = 0

\* the queue under every interleaving of init, /delta requests and drains
Init == QInit /\ MIdle /\ DIdle /\ TIdle

Next ==
  \/ InitGetNext
  \/ InitGetFailed
  \/ \E d \in Deltas : DeltaReceive(d)
  \/ \E d \in Deltas : DeltaGetRunning(d)
  \/ \E d \in Deltas : DeltaGetNext(d)
  \/ \E w \in Workers : ExecPersist(w)
  \/ \E w \in Workers : ExecRelease(w)
  \/ \E w \in Workers : ExecDrain(w)
  \/ \E w \in Workers : ExecCloseWithFailure(w)
  \/ \E w \in Workers : ExecEmail(w)
  \/ \E t \in Tasks : ProducerReady(t)
  \/ \E t \in Tasks : OperatorReset(t)

Spec == Init /\ [][Next]_vars

\* one drain: the chain of execute() calls that init() begins, with no
\* /delta request and no operator
DrainChain ==
  \/ InitGetNext
  \/ InitGetFailed
  \/ ExecPersist(InitWorker)
  \/ ExecRelease(InitWorker)
  \/ ExecDrain(InitWorker)
  \/ ExecCloseWithFailure(InitWorker)
  \/ ExecEmail(InitWorker)

DrainNext ==
  \/ DrainChain
  \/ \E t \in Tasks : ProducerReady(t)

SpecDrain == Init /\ [][DrainNext]_vars

\* every store call returns, and the continuation of the await then runs
FairDrain == SpecDrain /\ WF_vars(DrainChain)

\* one call of moveGraph
QIdle ==
  /\ status = [t \in Tasks |-> {NOT_STARTED}]
  /\ hpc = [w \in Workers |-> "idle"]
  /\ response = [w \in Workers |-> "none"]
  /\ epc = [w \in Workers |-> "idle"]
  /\ etask = [w \in Workers |-> Null]
  /\ outcome = [w \in Workers |-> "none"]
  /\ thrownAt = [w \in Workers |-> "none"]
  /\ notified = {}
  /\ raised = {}
  /\ faults = 0

MoveInit == MInit /\ QIdle /\ DIdle /\ TIdle

MoveNext ==
  \/ GetTriplesCount
  \/ GetTriplesPage
  \/ InsertBatch
  \/ CompareCount
  \/ CopyMissingBatch
  \/ RemoveGraphCount
  \/ RemoveGraphBatch

SpecMove == MoveInit /\ [][MoveNext]_vars

\* every store call of moveGraph returns, with a result or with an error,
\* and the continuation of the await then runs
FairMove == SpecMove /\ WF_vars(MoveNext)

\* moveGraph with the call of each update and its return as two steps
\* the positions of moveGraph at an await update(...) of a batch loop
UpdatePcs == {"insertInGraph", "copyMissing", "delete"}

\* faulty variant of DispatchUpdate: the loop calls update(...) without
\* await and goes on to the next batch while the update is outstanding
DispatchUpdateUnawaited ==
  /\ mpc \in UpdatePcs
  /\ dispatched <= updates + 1
  /\ dispatched' = dispatched + 1
  /\ UNCHANGED <<term, statement, stored, tpc, pageSize, batchSize,
                 fetchGraph, fetched, fetchCount, fetchOffset, reads,
                 insertIndex, inserts, bpc>>
  /\ UNCHANGED <<qvars, mvars, dvars>>

\* await update(...): the turn of the loop sends its update to the store;
\* the function is suspended until that update settles, so the call is
\* made only when every update sent before has returned
DispatchUpdate ==
  /\ mpc \in UpdatePcs
  /\ dispatched = updates
  /\ dispatched' = dispatched + 1
  /\ UNCHANGED <<term, statement, stored, tpc, pageSize, batchSize,
                 fetchGraph, fetched, fetchCount, fetchOffset, reads,
                 insertIndex, inserts, bpc>>
  /\ UNCHANGED <<qvars, mvars, dvars>>

\* the store executes the update sent and answers, with a result or with
\* an error; the loop goes on with its next turn
UpdateReturns ==
  /\ dispatched > updates
  /\ \/ InsertBatch
     \/ CopyMissingBatch
     \/ RemoveGraphBatch

DispatchNext ==
  \/ GetTriplesCount
  \/ GetTriplesPage
  \/ CompareCount
  \/ RemoveGraphCount
  \/ DispatchUpdate
  \/ UpdateReturns

SpecDispatch == MoveInit /\ [][DispatchNext]_vars

\* compareGraphAndCopyMissingTriples called on any source and any target,
\* and called again when it has returned, MaxCalls times in a row
MaxCalls == 2

VerifyInit ==
  /\ source \in SUBSET Triples
  /\ target \in SUBSET Triples
  /\ source0 = source
  /\ target0 = target
  /\ mpc = "compare"
  /\ triples = <<>>
  /\ count = 0
  /\ offset = 0
  /\ i = 0
  /\ currentBatch = 0
  /\ totalBatches = 0
  /\ updates = 0
  /\ calls = 1
  /\ QIdle
  /\ TIdle
  /\ pub = {}
  /\ stg = {}
  /\ snapshot = [d \in Datasets |-> {}]
  /\ generated = {}
  /\ rtask = 1
  /\ rstatus = NOT_STARTED
  /\ rpc = "idle"
  /\ dataset = Null
  /\ previousDataset = Null
  /\ bindings = {}
  /\ stg0 = {}
  /\ failures = 0

\* the call has returned (the position at which moveGraph goes on to
\* removeGraph) and the caller calls once more
VerifyAgain ==
  /\ mpc = "removeGraph"
  /\ calls < MaxCalls
  /\ mpc' = "compare"
  /\ calls' = calls + 1
  /\ UNCHANGED <<source, target, triples, count, offset, i, currentBatch,
                 totalBatches, source0, target0, updates>>
  /\ UNCHANGED <<pub, stg, snapshot, generated, rtask, rstatus, rpc, dataset,
                 previousDataset, bindings, stg0, failures>>
  /\ UNCHANGED <<qvars, tvars>>

VerifyNext ==
  \/ CompareCount
  \/ CopyMissingBatch
  \/ VerifyAgain

SpecVerify == VerifyInit /\ [][VerifyNext]_vars

\* moveGraph on a source graph that another writer changes while getTriples
\* pages through it: between the count and a page read a triple is added to
\* the source graph or removed from it
Drift ==
  /\ mpc = "parseBatch"
  /\ \E x \in Triples :
       source' = IF x \in source THEN source \ {x} ELSE source \cup {x}
  /\ UNCHANGED <<target, mpc, triples, count, offset, i, currentBatch,
                 totalBatches, source0, target0, updates>>
  /\ UNCHANGED <<qvars, dvars, tvars>>

DriftNext ==
  \/ MoveNext
  \/ Drift

SpecDrift == MoveInit /\ [][DriftNext]_vars

\* the releases of one meeting, one after the other: each task is executed,
\* executed again after the operator's reset when it failed, and followed by
\* the next task when it succeeded
ReleaseInit == RInit /\ QIdle /\ MIdle /\ TIdle

ReleaseNext ==
  \/ Execute
  \/ GenerateTtlFile
  \/ GenerateAttachmentDistributions
  \/ AttachmentDistribution
  \/ GenerateTtlDistribution
  \/ LinkDataset
  \/ DeprecatePrevious
  \/ InsertRevisionOf
  \/ RemoveDeprecatedTriples
  \/ DeprecateDelete
  \/ DeprecateInsert
  \/ GenerateDataset
  \/ CatalogDelete
  \/ CatalogInsert
  \/ MoveCopy
  \/ MoveRemove
  \/ PersistSuccess
  \/ NextRelease
  \/ ResetFailedRelease

SpecRelease == ReleaseInit /\ [][ReleaseNext]_vars

\* the public graph after the release of the first task, with producer
\* content c, has succeeded at the first attempt
Published(c) ==
  c \cup {Record(1), Modified(1, 1), File(1), Distribution(1, 1),
          DownloadURL(1, 1), DistModified(1, 1, 1),
          CatalogDataset(1), CatalogModified(1)}

\* one superseding release: dataset 1 of the meeting is published and the
\* second task of the meeting is Ready
SupersedeInit ==
  /\ \E c \in ProducerGraphs :
       /\ pub = Published(c)
       /\ snapshot = [d \in Datasets |-> IF d = 1 THEN c ELSE {}]
       /\ stg0 = Published(c) \ {CatalogDataset(1), CatalogModified(1)}
  /\ stg \in ProducerGraphs
  /\ generated = {<<1, 1>>}
  /\ rtask = 2
  /\ rstatus = READY_FOR_RELEASE
  /\ rpc = "idle"
  /\ dataset = 1
  /\ previousDataset = Null
  /\ bindings = {}
  /\ failures = 0
  /\ calls = 0
  /\ QIdle /\ MIdle /\ TIdle

\* the task is executed, and executed again after the operator's reset
\* when it failed
SupersedeNext ==
  \/ Execute
  \/ GenerateTtlFile
  \/ GenerateAttachmentDistributions
  \/ AttachmentDistribution
  \/ GenerateTtlDistribution
  \/ LinkDataset
  \/ DeprecatePrevious
  \/ InsertRevisionOf
  \/ RemoveDeprecatedTriples
  \/ DeprecateDelete
  \/ DeprecateInsert
  \/ GenerateDataset
  \/ CatalogDelete
  \/ CatalogInsert
  \/ MoveCopy
  \/ MoveRemove
  \/ PersistSuccess
  \/ ResetFailedRelease

SpecSupersede == SupersedeInit /\ [][SupersedeNext]_vars

\* what the release of the dataset of the other meeting has published: its
\* content, which has a triple in common with the content of the meeting,
\* its record, its TTL distribution and its entry in the catalog
NeighbourPublished ==
  {OtherMeeting, Data(NumContent),
   OtherRecord(NeighbourDataset),
   Modified(NeighbourDataset, NeighbourDataset),
   File(NeighbourDataset),
   Distribution(NeighbourDataset, NeighbourDataset),
   DownloadURL(NeighbourDataset, NeighbourDataset),
   DistModified(NeighbourDataset, NeighbourDataset, NeighbourDataset),
   CatalogDataset(NeighbourDataset)}

\* the superseding release, in a public graph that also holds the dataset
\* of another meeting
NeighbourInit ==
  /\ \E c \in ProducerGraphs :
       /\ pub = Published(c) \cup NeighbourPublished
       /\ snapshot = [d \in Datasets |->
                        IF d = 1 THEN c
                        ELSE IF d = NeighbourDataset
                        THEN {OtherMeeting, Data(NumContent)}
                        ELSE {}]
       /\ stg0 = Published(c) \ {CatalogDataset(1), CatalogModified(1)}
  /\ stg \in ProducerGraphs
  /\ generated = {<<1, 1>>}
  /\ rtask = 2
  /\ rstatus = READY_FOR_RELEASE
  /\ rpc = "idle"
  /\ dataset = 1
  /\ previousDataset = Null
  /\ bindings = {}
  /\ failures = 0
  /\ calls = 0
  /\ QIdle /\ MIdle /\ TIdle

SpecNeighbour == NeighbourInit /\ [][SupersedeNext]_vars

\* one term goes through toTripleStatement, the store and a SELECT
CodecNext ==
  \/ Escape
  \/ InsertAndSelect

\* any term, before it is encoded; nothing else runs
CodecStart == CodecInit /\ QIdle /\ MIdle /\ DIdle

SpecCodec == CodecStart /\ [][CodecNext]_vars

\* one run of getTriples and insertInGraph on a graph nothing else changes
BatchNext ==
  \/ FetchCount
  \/ FetchPage
  \/ InsertSlice

\* any graph and any two batch sizes; nothing else runs
BatchStart == BatchInit /\ QIdle /\ MIdle /\ DIdle

SpecBatch == BatchStart /\ [][BatchNext]_vars

\* ------------------------------------------------- steps of the queue
\* worker w selects task u and calls u.execute() in this step (from init or
\* /delta when its execute() was idle, from the drain at getNext)
Selects(w, u) ==
  /\ epc[w] \in {"idle", "getNext"}
  /\ epc'[w] = "releasing_delete"
  /\ etask'[w] = u

\* the execute() of worker w returns from an update of persistStatus
PersistReturns(w) ==
  /\ PersistTarget(epc[w]) # "none"
  /\ epc'[w] = AfterPc(epc[w])

DeletePcs == {"releasing_delete", "success_delete", "failed_delete"}

\* the status the state machine Ready -> Releasing -> {Success, Failed}
\* allows a task to have when execute() begins to persist at pc
StatusBefore(pc) ==
  IF PersistTarget(pc) = RELEASING THEN READY_FOR_RELEASE ELSE RELEASING

\* the execute() of worker w ends in this step, in its catch block
EndsInCatch(w) == epc[w] \in CatchPcs /\ epc'[w] = "idle"

Releasing == {t \in Tasks : RELEASING \in status[t]}

\* --------------------------------------------------------------- claims

\* C1 (failure containment): once execute() of a task Tn has raised an
\* exception, no step of init, of a /delta handler or of the drain selects
\* and starts a task created later than Tn, until the operator resets Tn.
C1_FailureContainment ==
  [][\A w \in Workers, u \in Tasks :
       Selects(w, u) => \A t \in raised : ~(Created(t) < Created(u))]_vars

\* C2 (queue ordering): in one drain, a task is started only when no task
\* created earlier is still Ready and no task has status Releasing; so
\* Ready tasks T1 < T2 < T3 are started in that order, T2 not before T1 has
\* left Releasing.
C2_QueueOrdering ==
  [][\A w \in Workers, u \in Tasks :
       Selects(w, u) =>
         /\ \A t \in Tasks :
              Created(t) < Created(u) => READY_FOR_RELEASE \notin status[t]
         /\ Releasing = {}]_vars

\* the drain has started the third task after the first two succeeded
C2_Witness ==
  /\ etask[InitWorker] = 3
  /\ epc[InitWorker] = "release"
  /\ status[1] = {SUCCESS}
  /\ status[2] = {SUCCESS}
  /\ faults = 0

\* C3 (single active task): at most one task has status Releasing.
C3_AtMostOneReleasing == Cardinality(Releasing) <= 1

\* C4 (selection rule): getNextReleaseTask gives no task when some task is
\* Failed; otherwise the Ready task created earliest, no task when none is
\* Ready; and never a task that is Releasing, Success or Failed.
C4_SelectionRule ==
  LET next == getNextReleaseTask(status)
      ready == {t \in Tasks : READY_FOR_RELEASE \in status[t]}
      blocked == \E t \in Tasks : FAILED \in status[t]
  IN /\ blocked => next = Null
     /\ ~blocked /\ ready = {} => next = Null
     /\ ~blocked /\ ready # {} =>
          /\ next \in ready
          /\ \A u \in ready : Created(next) <= Created(u)
     /\ next # Null => status[next] \cap {RELEASING, SUCCESS, FAILED} = {}

\* C5 (status transitions): every status change execute() persists is
\* Ready -> Releasing, Releasing -> Success or Releasing -> Failed: the
\* DELETE of persistStatus removes the one status the state machine allows
\* before the new one, and the INSERT adds the new status to none.
C5_StatusTransitions ==
  [][\A w \in Workers :
       PersistReturns(w) =>
         IF epc[w] \in DeletePcs
         THEN status[etask[w]] = {StatusBefore(epc[w])}
         ELSE status[etask[w]] = {}]_vars

\* C6 (failure recorded): when execute() ends after an exception of
\* prepare, linkDataset, deprecatePrevious or release, the task's status is
\* Failed, its failure mail was delivered and execute() did not reject.
C6_FailureRecorded ==
  [][\A w \in Workers :
       EndsInCatch(w) /\ thrownAt[w] \in ReleaseSteps =>
         /\ status'[etask[w]] = {FAILED}
         /\ etask[w] \in notified'
         /\ outcome'[w] = "fulfilled"]_vars

\* C7 (no automatic retry): no execute() sets a task to Releasing while the
\* task is recorded Failed (the operator's reset removes that record).
C7_NoRetry ==
  [][\A w \in Workers :
       PersistReturns(w) /\ PersistTarget(epc[w]) = RELEASING =>
         FAILED \notin status[etask[w]]]_vars

\* C8 (self-chaining drain): while a drain is running and no call has
\* failed, every Ready task reaches Success with no further trigger.
C8_DrainCompletes ==
  \A t \in Tasks :
    (status[t] = {READY_FOR_RELEASE} /\ epc[InitWorker] \in TryPcs /\ faults = 0)
      ~> (status[t] = {SUCCESS} \/ faults > 0)

\* the drain that init() began has released every task and has ended
C8_Witness ==
  /\ \A t \in Tasks : status[t] = {SUCCESS}
  /\ epc[InitWorker] = "idle"
  /\ outcome[InitWorker] = "fulfilled"
  /\ faults = 0

C10_RepairComplete ==
  mpc = "removeGraph" => NotInTarget(source, target) = {}

\* the repair has returned after copying two batches the bulk copy had lost
C10_Witness ==
  /\ mpc = "removeGraph"
  /\ totalBatches >= 2
  /\ currentBatch = totalBatches
  /\ source = source0
  /\ target0 = {}

\* C11 (verifyAndRepair is idempotent): a call of
\* compareGraphAndCopyMissingTriples made when target holds every triple of
\* source, the first call or a call that follows another, returns (or rejects
\* on its count query) without any store update and leaves both graphs as
\* they were.
C11_Idempotent ==
  [][(mpc = "compare" /\ source \subseteq target) =>
       /\ mpc' \in {"removeGraph", "thrown"}
       /\ updates' = updates
       /\ source' = source
       /\ target' = target]_vars

\* a first call has repaired two batches and the call that followed it has
\* returned with no further update
C11_Witness ==
  /\ calls = 2
  /\ mpc = "removeGraph"
  /\ source \subseteq target
  /\ updates = TotalBatches(countTriples(NotInTarget(source0, target0)))
  /\ updates = 2

\* C12 (completeness errors are not exceptional): when the source graph
\* changes while getTriples pages through it, or an insert batch commits in
\* part, moveGraph raises no error of its own, and when its repair pass has
\* returned target holds every triple of source.
C12_CompletenessHandled ==
  /\ mpc # "typeError"
  /\ mpc = "removeGraph" => source \subseteq target

\* ------------------------------------------ states of the public graph
\* the triple x describes dataset d: it is a triple of d, of one of its
\* distributions or of its TTL file
About(x, d) ==
  \/ x[1] \in {"dataset", "modified", "wasRevisionOf", "distribution",
                "downloadURL", "distributionModified"} /\ x[2] = d
  \/ x = File(d)

\* dataset d is visible to consumers of the public graph
Visible(d) ==
  \/ CatalogDataset(d) \in pub
  \/ \E x \in pub : x[1] \in {"dataset", "modified", "wasRevisionOf"} /\ x[2] = d

\* the datasets of the meeting that are active in the public graph
Active == HeadDatasets({Meeting}, pub)

\* the dct:modified timestamps of dataset d and of its distribution for f
ModifiedOf(d) == {ts \in Datasets : Modified(d, ts) \in pub}
DistModifiedOf(d, f) == {ts \in Datasets : DistModified(d, f, ts) \in pub}

\* C13 (visible only when complete): whenever a dataset is visible in the
\* public graph, through a triple of its record or through the catalog, the
\* public graph holds its record, its TTL distribution with the file, and
\* every triple of its description that the staging graph holds.
C13_VisibleOnlyWhenComplete ==
  \A d \in Datasets :
    Visible(d) =>
      /\ Record(d) \in pub
      /\ Distribution(d, d) \in pub
      /\ File(d) \in pub
      /\ \A x \in stg : About(x, d) => x \in pub

\* C14 (deprecation precision): the step of removeDeprecatedTriples for the
\* previous dataset D1 removes from the public graph exactly the triples of
\* D1's TTL file, and when the release of D2 has succeeded the public graph
\* holds every triple of D2's staging graph.
C14_DeprecationPrecision ==
  /\ [](rstatus = SUCCESS => stg0 \subseteq pub)
  /\ [][(rpc = "removeDeprecatedTriples" /\ rpc' = "deprecateDelete") =>
          pub \ pub' = snapshot[previousDataset] \cap pub]_vars

\* C15 (deprecation of the previous dataset): when a release that found the
\* active dataset D1 has reached Success, the public graph holds
\* D2 wasRevisionOf D1, no distribution of D1 has a downloadURL, and D1 and
\* each of its distributions have exactly one dct:modified.
C15_PreviousDeprecated ==
  (rstatus = SUCCESS /\ previousDataset # Null) =>
    /\ RevisionOf(dataset, previousDataset) \in pub
    /\ \A f \in Datasets : DownloadURL(previousDataset, f) \notin pub
    /\ Cardinality(ModifiedOf(previousDataset)) = 1
    /\ \A f \in Datasets :
         Distribution(previousDataset, f) \in pub =>
           Cardinality(DistModifiedOf(previousDataset, f)) = 1

\* C16 (one active dataset): in every state of the public graph at most one
\* dataset of the meeting has no dataset with wasRevisionOf pointing to it.
C16_OneActive == Cardinality(Active) <= 1

TriggerInit ==
  /\ status \in [Tasks -> {{s} : s \in Statuses}]
  /\ hpc = [w \in Workers |-> IF w = InitWorker THEN "done" ELSE "idle"]
  /\ response = [w \in Workers |-> "none"]
  /\ epc = [w \in Workers |-> "idle"]
  /\ etask = [w \in Workers |-> Null]
  /\ outcome = [w \in Workers |-> "none"]
  /\ thrownAt = [w \in Workers |-> "none"]
  /\ notified = {}
  /\ raised = {}
  /\ faults = 0
  /\ MIdle
  /\ DIdle
  /\ TIdle

TriggerNext ==
  \/ \E d \in Deltas : DeltaReceive(d)
  \/ \E d \in Deltas : DeltaGetRunning(d)
  \/ \E d \in Deltas : DeltaGetNext(d)
  \/ \E t \in Tasks : ProducerReady(t)
  \/ \E t \in Tasks : OperatorReset(t)

SpecTrigger == TriggerInit /\ [][TriggerNext]_vars

\* the store answers every query of the handler
FairTrigger ==
  /\ SpecTrigger
  /\ \A d \in Deltas : WF_vars(DeltaGetRunning(d))
  /\ \A d \in Deltas : WF_vars(DeltaGetNext(d))

\* C18 (every trigger gets a response): a received POST /delta leads to a
\* response; the response is 202 exactly in the step that starts a task,
\* whose execute() is then pending (the task is not yet Releasing, Success
\* or Failed); when a task is Releasing, or when no task is eligible, and
\* the store answers, the response is a 200 that starts nothing; and no
\* step of the handler writes a task status.
C18_TriggerResponds ==
  /\ \A d \in Deltas :
       (hpc[d] = "getRunning") ~> (hpc[d] = "idle" /\ response[d] # "none")
  /\ [][\A d \in Deltas :
          /\ (response[d] = "none" /\ response'[d] = "202") =>
               \E u \in Tasks :
                 /\ Selects(d, u)
                 /\ outcome'[d] = "pending"
                 /\ status'[u] = {READY_FOR_RELEASE}
          /\ (\E u \in Tasks : Selects(d, u)) => response'[d] = "202"
          /\ (hpc[d] = "getRunning" /\ hpc'[d] # "getRunning"
                /\ Releasing # {} /\ faults' = faults) =>
               response'[d] = "200 running"
          /\ (hpc[d] = "getNext" /\ hpc'[d] # "getNext"
                /\ getNextReleaseTask(status) = Null /\ faults' = faults) =>
               response'[d] = "200"
          /\ (response[d] = "none" /\ response'[d] \in {"200", "200 running"}) =>
               epc' = epc /\ etask' = etask
          /\ response'[d] \in {"none", "202", "200", "200 running", "500"}
          /\ hpc'[d] # hpc[d] => status' = status]_vars

\* a trigger has its 202 while the execute() it called is pending and the
\* task it started is still ready-for-release
C18_Witness ==
  \E d \in Deltas :
    /\ response[d] = "202"
    /\ epc[d] = "releasing_delete"
    /\ outcome[d] = "pending"
    /\ status[etask[d]] = {READY_FOR_RELEASE}

\* C19 (running-task guard): no step of any worker (init, the /delta
\* handler, the drain after a success) starts a task while a task of the
\* queue has status Releasing.
C19_RunningGuard ==
  [][\A w \in Workers, u \in Tasks : Selects(w, u) => Releasing = {}]_vars

\* C21 (xsd:string is ignored): for a literal with datatype xsd:string,
\* escape gives the string it gives for the same literal without datatype,
\* and the term read back after the insert is the one read back for that
\* literal: a literal with the same value and no datatype.
C21_StringDatatypeIgnored ==
  (term.type \in {"literal", "typed-literal"} /\ term.datatype = XSD_STRING) =>
    LET plain == [term EXCEPT !.datatype = Absent] IN
    /\ tpc \in {"insert", "selected"} => statement = escape(plain)
    /\ tpc = "selected" =>
         /\ stored = ReadBack(escape(plain))
         /\ stored = RdfTerm("literal", term.value, Absent, Absent)

\* a literal with datatype xsd:string whose value has a character to escape
\* has been written and read back
C21_Witness ==
  /\ tpc = "selected"
  /\ term.type = "typed-literal"
  /\ term.datatype = XSD_STRING
  /\ term.value = <<"a", QUOTE>>
  /\ stored = RdfTerm("literal", <<"a", QUOTE>>, Absent, Absent)

\* the elements of the sequences of seqs, one after the other
RECURSIVE Flatten(_)
Flatten(seqs) == IF seqs = <<>> THEN <<>> ELSE Head(seqs) \o Flatten(Tail(seqs))

\* ceil(n / size)
CeilDiv(n, size) == (n + size - 1) \div size

\* C22 (paged reads): when getTriples has returned for a graph of n triples
\* and page size S it has issued ceil(n/S) paged reads, the k-th at offset
\* (k-1)S with S rows (the last with the rest), and holds exactly the n
\* triples; and when the update batch size is S, insertInGraph has issued,
\* when it returns, as many updates, the k-th with the rows of the k-th read.
C22_PagedReads ==
  LET n == countTriples(fetchGraph) IN
  /\ bpc \in {"insertInGraph", "done"} =>
       /\ Len(reads) = CeilDiv(n, pageSize)
       /\ \A k \in 1..Len(reads) :
            /\ reads[k][1] = (k - 1) * pageSize
            /\ Len(reads[k][2]) = Min(pageSize, n - (k - 1) * pageSize)
       /\ Len(fetched) = n
       /\ Range(fetched) = fetchGraph
  /\ (bpc = "done" /\ batchSize = pageSize) =>
       /\ Len(inserts) = Len(reads)
       /\ \A k \in 1..Len(reads) : inserts[k] = reads[k][2]
  /\ bpc # "typeError"

\* C25 (insert batches): insertInGraph on n triples with batch size B has
\* issued, when it returns, ceil(n/B) updates (none for n = 0); every batch
\* has at most B triples and, at every point, the batches issued so far are
\* the consecutive slices of the input up to the loop index, each input
\* triple once.
C25_InsertBatches ==
  LET n == Len(fetched) IN
  /\ bpc = "done" => Len(inserts) = CeilDiv(n, batchSize)
  /\ bpc = "done" => Flatten(inserts) = fetched
  /\ bpc \in {"insertInGraph", "done"} =>
       /\ \A k \in 1..Len(inserts) :
            /\ Len(inserts[k]) <= batchSize
            /\ Len(inserts[k]) >= 1
            /\ inserts[k] = SubSeq(fetched, (k - 1) * batchSize + 1,
                                   Min(k * batchSize, n))
       /\ Flatten(inserts) = SubSeq(fetched, 1, Min(insertIndex, n))
  /\ (bpc = "done" /\ n = 0) => inserts = <<>>

\* 5 triples read in pages of 3 have been inserted in batches of 2/2/1
C25_Witness ==
  /\ bpc = "done"
  /\ Len(fetched) = 5
  /\ pageSize = 3 /\ batchSize = 2
  /\ Len(inserts) = 3
  /\ Len(inserts[3]) = 1

\* C23 (no loss in moveGraph): in every state of a moveGraph, the states
\* after an error at any step included, every triple the source graph held
\* when moveGraph was called is in the source graph or in the target graph;
\* and a step removes triples from the source graph only in removeGraph,
\* after the repair pass has returned, when target holds all of source.
C23_NoLoss ==
  /\ [](source0 \subseteq source \cup target)
  /\ [][source' # source =>
          /\ mpc = "delete"
          /\ source \subseteq target
          /\ source' \subseteq source]_vars

\* a moveGraph of several batches was aborted by an error in removeGraph,
\* after a delete, with triples the bulk copy had not committed
C23_Witness ==
  /\ mpc = "thrown"
  /\ source # {} /\ source # source0
  /\ countTriples(source0) > UPDATE_BATCH_SIZE
  /\ currentBatch > 0
  /\ source0 \subseteq target

\* C24 (removeGraph empties the graph): when removeGraph has returned the
\* graph holds no triple; every delete removed at most UPDATE_BATCH_SIZE
\* triples, all of them triples of the graph; and for a graph that is empty
\* when removeGraph counts it, removeGraph returns without any update.
C24_RemoveGraph ==
  /\ [](mpc = "done" => source = {})
  /\ [][mpc = "delete" =>
          /\ source' \subseteq source
          /\ Cardinality(source \ source') <= UPDATE_BATCH_SIZE]_vars
  /\ [][(mpc = "removeGraph" /\ source = {} /\ mpc' # "thrown") =>
          mpc' = "done" /\ updates' = updates]_vars

\* removeGraph has returned after two deletes, of a full batch and of the
\* rest, on a graph of UPDATE_BATCH_SIZE + 1 triples
C24_Witness ==
  /\ mpc = "done"
  /\ countTriples(source0) = UPDATE_BATCH_SIZE + 1
  /\ count = UPDATE_BATCH_SIZE + 1
  /\ offset = 2 * UPDATE_BATCH_SIZE
  /\ source = {}

\* C26 (snapshot lookup): when removeDeprecatedTriples returns for the
\* previous dataset that deprecatePrevious found, its lookup has located the
\* TTL file of that dataset and the public graph holds no triple of the
\* snapshot written to that file.
C26_SnapshotRemoved ==
  [][(rpc = "removeDeprecatedTriples" /\ rpc' = "deprecateDelete"
        /\ Distribution(previousDataset, previousDataset) \in pub) =>
       /\ SnapshotLookup(pub, previousDataset) # {}
       /\ snapshot[previousDataset] \cap pub' = {}]_vars

\* the step of the release, in the order of the claim, that the position
\* pc belongs to
StepOf(pc) ==
  CASE pc = "generateTtlFile" -> 1
    [] pc \in {"generateAttachmentDistributions", "attachment"} -> 2
    [] pc = "generateTtlDistribution" -> 3
    [] pc = "linkDataset" -> 4
    [] pc \in {"deprecatePrevious", "wasRevisionOf", "removeDeprecatedTriples",
               "deprecateDelete", "deprecateInsert"} -> 5
    [] pc = "generateDataset" -> 6
    [] pc \in {"addToCatalog", "catalogInsert"} -> 7
    [] pc \in {"moveGraph", "removeGraph"} -> 8
    [] pc = "persistSuccess" -> 9
    [] OTHER -> 0

\* C27 (order of the release steps): a run of a task begins with the TTL
\* file and goes from each step to the next one of the order (or ends, on an
\* error); the file is written, the task linked, the record inserted, the
\* catalog updated and the staging graph copied only in their own steps;
\* the staging graph loses triples only in moveGraph and only when the
\* public graph holds them all; and Success is persisted only after
\* moveGraph has returned, with the staging graph empty.
C27_StepOrder ==
  /\ [][rpc' # rpc =>
          \/ rpc' = "idle"
          \/ rpc = "idle" /\ rpc' = "generateTtlFile"
          \/ rpc # "idle" /\ StepOf(rpc') \in {StepOf(rpc), StepOf(rpc) + 1}]_vars
  /\ [][/\ snapshot' # snapshot => StepOf(rpc) = 1
        /\ generated' # generated => StepOf(rpc) = 4
        /\ stg' \ stg # {} => StepOf(rpc) \in {2, 3, 5, 6}
        /\ (\E d \in Datasets : Record(d) \in stg' \ stg) => StepOf(rpc) = 6
        /\ (\E d \in Datasets : CatalogDataset(d) \in pub' \ pub) =>
             StepOf(rpc) = 7
        /\ (pub' \ pub) \cap stg # {} => StepOf(rpc) = 8
        /\ stg \ stg' # {} => StepOf(rpc) = 8 /\ stg \subseteq pub
        /\ (rstatus' = SUCCESS /\ rstatus # SUCCESS) =>
             rpc = "persistSuccess" /\ stg = {}]_vars

\* the second task of the meeting has gone through every step at its first
\* run, the deprecation of dataset 1 included, and has reached Success
C27_Witness ==
  /\ rstatus = SUCCESS
  /\ rpc = "idle"
  /\ failures = 0
  /\ <<2, dataset>> \in generated
  /\ RevisionOf(dataset, 1) \in pub
  /\ CatalogDataset(dataset) \in pub
  /\ stg = {}

\* C28 (a started task is settled): when every store call returns, with a
\* result or with an error, every task that has status Releasing comes to
\* have status Success or Failed.
C28_EventuallySettled ==
  \A t \in Tasks :
    (RELEASING \in status[t]) ~> (SUCCESS \in status[t] \/ FAILED \in status[t])

\* C29 (the batch loops terminate): every moveGraph ends, by returning or
\* by an error; the repair loop is planned with at most one batch per
\* UPDATE_BATCH_SIZE triples of the source graph and never runs more batches
\* than planned; a turn of the loop of getTriples, insertInGraph or
\* removeGraph begins only below its count, which the graph bounds; and a
\* moveGraph issues at most three updates per batch of the source graph.
C29_LoopsTerminate ==
  /\ <>(mpc \in {"done", "thrown", "typeError"})
  /\ [](/\ currentBatch <= totalBatches
        /\ totalBatches <= CeilDiv(countTriples(source0), UPDATE_BATCH_SIZE)
        /\ mpc = "copyMissing" => currentBatch < totalBatches
        /\ mpc \in {"parseBatch", "delete"} =>
             offset < count /\ count <= countTriples(source0)
        /\ mpc = "insertInGraph" => i < Len(triples)
        /\ updates <= 3 * CeilDiv(countTriples(source0), UPDATE_BATCH_SIZE))

\* a moveGraph has returned whose repair loop had one batch to run, the
\* bulk copy having put all but one of several batches of triples in target
C29_Witness ==
  /\ mpc = "done"
  /\ countTriples(source0) > UPDATE_BATCH_SIZE + 1
  /\ target0 = {}
  /\ count = countTriples(source0)
  /\ totalBatches = 1
  /\ currentBatch = 1

C31_NoRollback ==
  [][(rstatus' = FAILED /\ rstatus # FAILED) =>
       /\ rstatus = RELEASING \/ rpc = "idle"
       /\ <<pub, stg, generated, snapshot>>' = <<pub, stg, generated, snapshot>>
       /\ rtask' = rtask]_vars

\* the release of the second task failed inside moveGraph: the task is
\* Failed and linked to its dataset, a part of the description of the
\* dataset is in the public graph and another part is not
C31_Witness ==
  /\ rstatus = FAILED
  /\ <<rtask, dataset>> \in generated
  /\ \E x \in stg \cap pub : About(x, dataset)
  /\ \E y \in stg \ pub : About(y, dataset)

\* C32 (batches are dispatched one at a time): in moveGraph an insert, a
\* repair or a delete batch is sent to the store only when every update
\* sent before has returned, so at most one update is outstanding; the
\* updates are sent one per batch, in the order insert, repair, delete.
C32_Sequential ==
  /\ [](dispatched - updates \in {0, 1})
  /\ [](dispatched > updates => mpc \in UpdatePcs \cup {"thrown"})
  /\ [][dispatched' # dispatched =>
          /\ dispatched = updates
          /\ dispatched' = dispatched + 1
          /\ mpc \in UpdatePcs]_vars

\* moveGraph is done after at least one insert, one repair and one delete
\* batch, each sent after the one before had returned
C32_Witness ==
  /\ mpc = "done"
  /\ dispatched = updates
  /\ updates >= 3
  /\ currentBatch >= 1
  /\ i >= UPDATE_BATCH_SIZE

\* C33 (term codec): the encoding of a literal begins with its quoted
\* value; what follows is ^^<datatype> exactly when the literal has a
\* datatype other than xsd:string, @lang exactly when it has no such
\* datatype and has a language tag, and nothing otherwise. The encoding of
\* a URI is the URI reference alone. The store reads the datatype and the
\* language tag back accordingly.
C33_Suffix ==
  tpc \in {"insert", "selected"} =>
    LET quoted == sparqlEscapeString(term.value)
        suffix == SubSeq(statement, Len(quoted) + 1, Len(statement))
        typed == term.datatype # Absent /\ term.datatype # XSD_STRING
        tagged == ~typed /\ term.lang # Absent
    IN
    /\ term.type \in {"literal", "typed-literal"} =>
         /\ SubSeq(statement, 1, Len(quoted)) = quoted
         /\ (suffix # <<>> /\ Head(suffix) = "^^") <=> typed
         /\ typed => suffix = <<"^^">> \o sparqlEscapeUri(term.datatype)
         /\ (suffix # <<>> /\ Head(suffix) = "@") <=> tagged
         /\ tagged => suffix = <<"@">> \o term.lang
         /\ suffix = <<>> <=> (~typed /\ ~tagged)
         /\ tpc = "selected" =>
              /\ stored.value = term.value
              /\ stored.datatype = IF typed THEN term.datatype ELSE Absent
              /\ stored.lang = IF tagged THEN term.lang ELSE Absent
    /\ term.type = "uri" =>
         /\ statement = <<"<">> \o EscapeChars(term.value) \o <<">">>
         /\ \A k \in 1..Len(statement) : statement[k] \notin {"^^", "@", QUOTES}
         /\ tpc = "selected" => stored = term

\* a literal with a language tag and a character to escape has been written
\* with its tag and read back with it
C33_Witness ==
  /\ tpc = "selected"
  /\ term = RdfTerm("literal", <<BACKSLASH, "a">>, Absent, <<"nl">>)
  /\ statement = <<QUOTES, BACKSLASH, BACKSLASH, "a", QUOTES, "@", "nl">>
  /\ stored = term

\* C34 (exactly one status): in every state every release task has exactly
\* one adms:status triple in the store, so that no query sees a task
\* without status or with two.
C34_ExactlyOneStatus ==
  \A t \in Tasks : Cardinality(status[t]) = 1

\* C35 (Success is terminal): a task whose status is Success keeps that
\* status in every later step of the engine, and no failure mail is sent
\* about a task that has status Success.
C35_SuccessTerminal ==
  [][\A t \in Tasks :
       status[t] = {SUCCESS} =>
         /\ status'[t] = {SUCCESS}
         /\ t \in notified' => t \in notified]_vars

\* C36 (at-most-once execution): no step of init, of a /delta handler or
\* of a drain selects and starts a task whose execute() is already running
\* for another caller; a task set to Ready once is started once.
C36_AtMostOnce ==
  [][\A w \in Workers, u \in Tasks :
       Selects(w, u) => \A v \in Workers : ~(etask[v] = u /\ epc[v] # "idle")]_vars

TypeOK ==
  /\ status \in [Tasks -> SUBSET Statuses]
  /\ faults \in 0..MaxFaults
  /\ source \subseteq Triples
  /\ target \subseteq Triples
====
